---- MODULE Spec2Model ----
(***************************************************************************)
(* Model of simple_backend.py: the rate-limit middleware, the embedding    *)
(* cache, the vector retrieval, the chat fallback pipeline and the nearby  *)
(* facility search.  Each component has its own specification over the     *)
(* shared variables; the variables of the other components stay at their   *)
(* initial values.                                                          *)
(***************************************************************************)
EXTENDS Integers, Sequences, FiniteSets, TLC

VARIABLES
    \* RateLimitMiddleware
    now,             \* the last value time.time() returned
    request_counts,  \* self.request_counts: client ip -> list of timestamps
    last_cleanup,    \* self.last_cleanup
    admitted,        \* history: client ip -> every timestamp ever admitted
    lastResp,        \* the last request handled and the response it got
    handlers,        \* the dispatch calls in progress: position and locals
    running,         \* the dispatch call that holds the event loop, or None
    unswept,         \* request_counts of a middleware that never sweeps
    unsweptStatus,   \* the status that middleware gave the last request
    \* get_cached_embedding and the capabilities behind it
    embedding_model, \* the global embedding_model is initialised
    encodeUp,        \* embedding_model.encode currently succeeds
    cache,           \* the lru_cache: <<key, value>> entries, least recent first
    encodeCalls,     \* question -> number of embedding_model.encode calls
    evictions,       \* question -> number of times its entry was evicted
    lastUse,         \* question -> number of the last call made for it
    lastCall,        \* the last get_cached_embedding call and its result
    prevCall,        \* the call before it
    \* search_vector_database
    collection,      \* the global collection is initialised
    searchReq,       \* the arguments of the search and what the index answers
    searchOut,       \* the last search_vector_database call and its outcome
    \* chat
    qa_database,     \* the global qa_database
    ollama_client,   \* the global ollama_client is initialised
    chat,            \* the chat request in flight: its position and locals
    \* get_nearby_locations
    map_data,        \* the global map_data
    geoReq,          \* the NearbyLocationRequest of the run
    geoOut,          \* the last get_nearby_locations call and its outcome
    \* the ranking step of chat, on its own
    rankReq,         \* relevant_docs and the message of the request
    rankOut,         \* scored_docs and sources after the ranking
    \* the worker pool
    executor,        \* the global executor: its tasks and its life cycle
    \* search_qa_database on its own
    faqReq,          \* qa_database and the question of the call
    faqOut           \* what the call returned

rateVars == <<now, request_counts, last_cleanup, admitted, lastResp,
              handlers, running, unswept, unsweptStatus>>
cacheVars == <<embedding_model, encodeUp, cache, encodeCalls, evictions,
               lastUse, lastCall, prevCall>>

searchVars == <<collection, searchReq, searchOut>>

chatVars == <<qa_database, ollama_client, chat>>

geoVars == <<map_data, geoReq, geoOut>>

rankVars == <<rankReq, rankOut>>

poolVars == <<executor>>

faqVars == <<faqReq, faqOut>>

vars == <<rateVars, cacheVars, searchVars, chatVars, geoVars, rankVars,
          poolVars, faqVars>>

\* The variables of the other components, which a component leaves alone.
exceptRate == <<cacheVars, searchVars, chatVars, geoVars, rankVars, poolVars, faqVars>>
exceptCache == <<rateVars, searchVars, chatVars, geoVars, rankVars, poolVars, faqVars>>
exceptSearch == <<rateVars, chatVars, geoVars, rankVars, poolVars, faqVars>>
exceptChat == <<rateVars, geoVars, rankVars, poolVars, faqVars>>
exceptGeo == <<rateVars, cacheVars, searchVars, chatVars, rankVars, poolVars, faqVars>>
exceptRank == <<rateVars, cacheVars, searchVars, chatVars, geoVars, poolVars, faqVars>>
exceptPool == <<rateVars, cacheVars, searchVars, chatVars, geoVars, rankVars, faqVars>>
exceptFaq == <<rateVars, cacheVars, searchVars, chatVars, geoVars, rankVars,
              poolVars>>

None == "none"

----------------------------------------------------------------------------
(***************************************************************************)
(* RateLimitMiddleware                                                      *)
(***************************************************************************)

\* Config.RATE_LIMIT_REQUESTS (20 in the source), scaled down.
RATE_LIMIT_REQUESTS == 2
\* Config.RATE_LIMIT_WINDOW (60 s in the source), scaled down.
RATE_LIMIT_WINDOW == 3
\* self.cleanup_interval (60 s in the source), scaled down.
cleanup_interval == 3
\* Time runs from 0 (construction) to MaxTime.
MaxTime == 5

\* request.client.host of the requests; "unknown" is the key of a request
\* without a client address.
Clients == {"10.0.0.1", "unknown"}
Times == 0..MaxTime

\* Faulty variant of Prune: keeps a timestamp exactly RATE_LIMIT_WINDOW old.
PruneMutLe(timestamps, current_time) ==
    SelectSeq(timestamps, LAMBDA ts : current_time - ts <= RATE_LIMIT_WINDOW)

\* Faulty variant of Prune: nothing is removed.
PruneMutKeepAll(timestamps, current_time) == timestamps

\* [ts for ts in timestamps if current_time - ts < Config.RATE_LIMIT_WINDOW]
Prune(timestamps, current_time) ==
    SelectSeq(timestamps, LAMBDA ts : current_time - ts < RATE_LIMIT_WINDOW)

\* Faulty variant of CleanupOldRecords: the sweep also removes the
\* timestamps that expire within the next second.
CleanupOldRecordsMutEager(counts, current_time) ==
    LET pruned == [ip \in DOMAIN counts |->
                      SelectSeq(counts[ip], LAMBDA ts :
                                   current_time - ts < RATE_LIMIT_WINDOW - 1)]
        keep   == {ip \in DOMAIN counts : pruned[ip] # <<>>}
    IN  [ip \in keep |-> pruned[ip]]

\* Faulty variant of CleanupOldRecords: the keys left empty are kept.
CleanupOldRecordsMutKeepEmpty(counts, current_time) ==
    [ip \in DOMAIN counts |->
        SelectSeq(counts[ip], LAMBDA ts : current_time - ts < RATE_LIMIT_WINDOW)]

\* _cleanup_old_records: prune every key, then delete the keys left empty.
CleanupOldRecords(counts, current_time) ==
    LET pruned == [ip \in DOMAIN counts |-> Prune(counts[ip], current_time)]
        keep   == {ip \in DOMAIN counts : pruned[ip] # <<>>}
    IN  [ip \in keep |-> pruned[ip]]

\* self.request_counts[client_ip] of a defaultdict(list): a missing key reads
\* as the empty list.
Get(counts, ip) == IF ip \in DOMAIN counts THEN counts[ip] ELSE <<>>

Put(counts, ip, lst) == [k \in DOMAIN counts \cup {ip} |->
                            IF k = ip THEN lst ELSE counts[k]]

\* Faulty variant of OverLimit: > instead of >=.
OverLimitMutGt(lst) == Len(lst) > RATE_LIMIT_REQUESTS

\* len(self.request_counts[client_ip]) >= Config.RATE_LIMIT_REQUESTS
OverLimit(lst) == Len(lst) >= RATE_LIMIT_REQUESTS

\* No request has been handled yet.
NoResp == [client |-> None, api |-> FALSE, time |-> 0, status |-> 0,
           forwarded |-> FALSE, swept |-> FALSE]

\* The dispatch calls that can be in progress at the same time, and the
\* client whose requests they handle.
Handlers == {"h1", "h2"}
ConcurrentClients == {"10.0.0.1"}

\* No dispatch call in progress in this slot.
NoHandler == [pc |-> "idle", client_ip |-> None, api |-> FALSE,
              current_time |-> 0]

RateInit ==
    /\ now = 0
    /\ request_counts = << >>
    /\ last_cleanup = 0
    /\ admitted = [c \in Clients |-> <<>>]
    /\ lastResp = NoResp
    /\ handlers = [h \in Handlers |-> NoHandler]
    /\ running = None
    /\ unswept = << >>
    /\ unsweptStatus = 0

\* Faulty variant of Dispatch: the limit applies to every path.
DispatchMutAllPaths(client_ip, isApi, current_time) ==
    /\ current_time >= now
    /\ UNCHANGED <<exceptRate, handlers, running>>
    /\ now' = current_time
    /\ LET sweep  == current_time - last_cleanup > cleanup_interval
           swept  == IF sweep THEN CleanupOldRecords(request_counts, current_time)
                     ELSE request_counts
           pruned == Prune(Get(swept, client_ip), current_time)
       IN  /\ last_cleanup' = IF sweep THEN current_time ELSE last_cleanup
           /\ IF isApi \/ ~isApi
              THEN IF OverLimit(pruned)
                   THEN /\ request_counts' = Put(swept, client_ip, pruned)
                        /\ admitted' = admitted
                        /\ lastResp' = [client |-> client_ip, api |-> isApi,
                                        time |-> current_time, status |-> 429,
                                        forwarded |-> FALSE, swept |-> sweep]
                   ELSE /\ request_counts' =
                               Put(swept, client_ip, Append(pruned, current_time))
                        /\ admitted' = [admitted EXCEPT ![client_ip] =
                                            Append(@, current_time)]
                        /\ lastResp' = [client |-> client_ip, api |-> isApi,
                                        time |-> current_time, status |-> 200,
                                        forwarded |-> TRUE, swept |-> sweep]
              ELSE /\ request_counts' = swept
                   /\ admitted' = admitted
                   /\ lastResp' = [client |-> client_ip, api |-> FALSE,
                                   time |-> current_time, status |-> 200,
                                   forwarded |-> TRUE, swept |-> sweep]

\* Faulty variant of Dispatch: the timestamp of a rejected request is
\* recorded too.
DispatchMutRecordsRejected(client_ip, isApi, current_time) ==
    /\ current_time >= now
    /\ UNCHANGED <<exceptRate, handlers, running>>
    /\ now' = current_time
    /\ LET sweep  == current_time - last_cleanup > cleanup_interval
           swept  == IF sweep THEN CleanupOldRecords(request_counts, current_time)
                     ELSE request_counts
           pruned == Prune(Get(swept, client_ip), current_time)
       IN  /\ last_cleanup' = IF sweep THEN current_time ELSE last_cleanup
           /\ IF isApi
              THEN IF OverLimit(pruned)
                   THEN /\ request_counts' =
                               Put(swept, client_ip, Append(pruned, current_time))
                        /\ admitted' = admitted
                        /\ lastResp' = [client |-> client_ip, api |-> TRUE,
                                        time |-> current_time, status |-> 429,
                                        forwarded |-> FALSE, swept |-> sweep]
                   ELSE /\ request_counts' =
                               Put(swept, client_ip, Append(pruned, current_time))
                        /\ admitted' = [admitted EXCEPT ![client_ip] =
                                            Append(@, current_time)]
                        /\ lastResp' = [client |-> client_ip, api |-> TRUE,
                                        time |-> current_time, status |-> 200,
                                        forwarded |-> TRUE, swept |-> sweep]
              ELSE /\ request_counts' = swept
                   /\ admitted' = admitted
                   /\ lastResp' = [client |-> client_ip, api |-> FALSE,
                                   time |-> current_time, status |-> 200,
                                   forwarded |-> TRUE, swept |-> sweep]

\* dispatch(request, call_next) for a request of client_ip arriving when
\* time.time() returns current_time; isApi is path.startswith("/api/").
Dispatch(client_ip, isApi, current_time) ==
    /\ current_time >= now
    /\ UNCHANGED <<exceptRate, handlers, running>>
    /\ now' = current_time
    /\ LET sweep  == current_time - last_cleanup > cleanup_interval
           swept  == IF sweep THEN CleanupOldRecords(request_counts, current_time)
                     ELSE request_counts
           pruned == Prune(Get(swept, client_ip), current_time)
       IN  /\ last_cleanup' = IF sweep THEN current_time ELSE last_cleanup
           /\ IF isApi
              THEN IF OverLimit(pruned)
                   THEN /\ request_counts' = Put(swept, client_ip, pruned)
                        /\ admitted' = admitted
                        /\ lastResp' = [client |-> client_ip, api |-> TRUE,
                                        time |-> current_time, status |-> 429,
                                        forwarded |-> FALSE, swept |-> sweep]
                   ELSE /\ request_counts' =
                               Put(swept, client_ip, Append(pruned, current_time))
                        /\ admitted' = [admitted EXCEPT ![client_ip] =
                                            Append(@, current_time)]
                        /\ lastResp' = [client |-> client_ip, api |-> TRUE,
                                        time |-> current_time, status |-> 200,
                                        forwarded |-> TRUE, swept |-> sweep]
              ELSE /\ request_counts' = swept
                   /\ admitted' = admitted
                   /\ lastResp' = [client |-> client_ip, api |-> FALSE,
                                   time |-> current_time, status |-> 200,
                                   forwarded |-> TRUE, swept |-> sweep]

RateNext ==
    \E c \in Clients, isApi \in BOOLEAN, t \in Times :
       Dispatch(c, isApi, t) /\ UNCHANGED <<unswept, unsweptStatus>>

(***************************************************************************)
(* dispatch next to a middleware that never runs _cleanup_old_records and  *)
(* receives the same requests.                                             *)
(***************************************************************************)

\* Lines 172-196 of dispatch, without lines 166-170: the map and the status
\* after the request.
DispatchWithoutSweep(counts, client_ip, isApi, current_time) ==
    IF isApi
    THEN LET pruned == Prune(Get(counts, client_ip), current_time) IN
         IF OverLimit(pruned)
         THEN [counts |-> Put(counts, client_ip, pruned), status |-> 429]
         ELSE [counts |-> Put(counts, client_ip, Append(pruned, current_time)),
               status |-> 200]
    ELSE [counts |-> counts, status |-> 200]

\* The request is handled by dispatch and by the middleware without sweep.
DispatchBoth(client_ip, isApi, current_time) ==
    /\ Dispatch(client_ip, isApi, current_time)
    /\ LET other == DispatchWithoutSweep(unswept, client_ip, isApi, current_time)
       IN  /\ unswept' = other.counts
           /\ unsweptStatus' = other.status

SweepNext ==
    \E c \in Clients, isApi \in BOOLEAN, t \in Times : DispatchBoth(c, isApi, t)

(***************************************************************************)
(* dispatch with several requests in progress.  The calls are coroutines   *)
(* of one event loop: a call runs from statement to statement and gives up *)
(* the loop only at "await call_next(request)".                            *)
(***************************************************************************)

\* Faulty variant of MayRun: a call can be preempted between any two
\* statements.
MayRunMutPreemptive(h) == TRUE

\* Call h can execute its next statement: it holds the event loop, or no
\* call does.
MayRun(h) == running = None \/ running = h

\* Lines 164-170: the call starts, reads the clock and runs the sweep when
\* it is due.
HandlerStart(h, client_ip, isApi, current_time) ==
    /\ handlers[h].pc = "idle"
    /\ MayRun(h)
    /\ current_time >= now
    /\ now' = current_time
    /\ LET sweep == current_time - last_cleanup > cleanup_interval IN
       /\ request_counts' = IF sweep
                             THEN CleanupOldRecords(request_counts, current_time)
                             ELSE request_counts
       /\ last_cleanup' = IF sweep THEN current_time ELSE last_cleanup
       /\ handlers' = [handlers EXCEPT ![h] =
                          [pc |-> IF isApi THEN "prune" ELSE "forward",
                           client_ip |-> client_ip, api |-> isApi,
                           current_time |-> current_time]]
    /\ running' = h
    /\ UNCHANGED <<admitted, lastResp, exceptRate,
                   unswept, unsweptStatus>>

\* Lines 175-178: the list of the client is replaced by its pruned copy.
HandlerPrune(h) ==
    /\ handlers[h].pc = "prune"
    /\ MayRun(h)
    /\ request_counts' =
          Put(request_counts, handlers[h].client_ip,
              Prune(Get(request_counts, handlers[h].client_ip),
                    handlers[h].current_time))
    /\ handlers' = [handlers EXCEPT ![h].pc = "count"]
    /\ running' = h
    /\ UNCHANGED <<now, last_cleanup, admitted, lastResp, exceptRate,
                   unswept, unsweptStatus>>

\* Lines 181-189: the length of the list is compared with the limit; over
\* the limit the call returns the 429 response.
HandlerCount(h) ==
    /\ handlers[h].pc = "count"
    /\ MayRun(h)
    /\ IF OverLimit(Get(request_counts, handlers[h].client_ip))
       THEN /\ handlers' = [handlers EXCEPT ![h] = NoHandler]
            /\ running' = None
       ELSE /\ handlers' = [handlers EXCEPT ![h].pc = "append"]
            /\ running' = h
    /\ UNCHANGED <<now, request_counts, last_cleanup, admitted, lastResp,
                   exceptRate,
                   unswept, unsweptStatus>>

\* Line 192: the timestamp of the request is appended.
HandlerAppend(h) ==
    /\ handlers[h].pc = "append"
    /\ MayRun(h)
    /\ request_counts' =
          Put(request_counts, handlers[h].client_ip,
              Append(Get(request_counts, handlers[h].client_ip),
                     handlers[h].current_time))
    /\ admitted' = [admitted EXCEPT ![handlers[h].client_ip] =
                        Append(@, handlers[h].current_time)]
    /\ handlers' = [handlers EXCEPT ![h].pc = "forward"]
    /\ running' = h
    /\ UNCHANGED <<now, last_cleanup, lastResp, exceptRate,
                   unswept, unsweptStatus>>

\* Line 195, the call: the request goes to the next handler and the call
\* is suspended until the response is there.
HandlerForward(h) ==
    /\ handlers[h].pc = "forward"
    /\ MayRun(h)
    /\ handlers' = [handlers EXCEPT ![h].pc = "awaiting"]
    /\ running' = None
    /\ UNCHANGED <<now, request_counts, last_cleanup, admitted, lastResp,
                   exceptRate,
                   unswept, unsweptStatus>>

\* Lines 195-196, the return: the call resumes with the response and
\* returns it.
HandlerReturn(h) ==
    /\ handlers[h].pc = "awaiting"
    /\ MayRun(h)
    /\ handlers' = [handlers EXCEPT ![h] = NoHandler]
    /\ running' = None
    /\ UNCHANGED <<now, request_counts, last_cleanup, admitted, lastResp,
                   exceptRate,
                   unswept, unsweptStatus>>

ConcurrentNext ==
    \/ \E h \in Handlers, c \in ConcurrentClients, isApi \in BOOLEAN, t \in Times :
          HandlerStart(h, c, isApi, t)
    \/ \E h \in Handlers : HandlerPrune(h)
    \/ \E h \in Handlers : HandlerCount(h)
    \/ \E h \in Handlers : HandlerAppend(h)
    \/ \E h \in Handlers : HandlerForward(h)
    \/ \E h \in Handlers : HandlerReturn(h)


----------------------------------------------------------------------------
(***************************************************************************)
(* get_cached_embedding: functools.lru_cache around embedding_model.encode  *)
(***************************************************************************)

\* Config.CACHE_MAX_SIZE (1000 in the source), scaled down.
CACHE_MAX_SIZE == 2
\* Questions asked directly of the cache are 1..MaxQuestions.
MaxQuestions == 3
\* At most MaxCalls calls of get_cached_embedding are made in a run.
MaxCalls == 5

Questions == 1..MaxQuestions
\* The tuple () and the vectors embedding_model.encode can produce.
Empty == <<>>
Vectors == {<<1>>, <<2>>}

NoCall == [q |-> None, result |-> Empty, hit |-> FALSE, invoked |-> FALSE,
           up |-> FALSE, n |-> 0]

\* Index of key q in the cache, 0 when absent.
CacheIndex(c, q) ==
    IF \E i \in 1..Len(c) : c[i][1] = q
    THEN CHOOSE i \in 1..Len(c) : c[i][1] = q
    ELSE 0

RemoveAt(s, i) == SubSeq(s, 1, i - 1) \o SubSeq(s, i + 1, Len(s))

\* The body of get_cached_embedding: () when the model is missing or encode
\* raises, the encoded vector otherwise.  enc is what encode does when it
\* is called: it raises, or returns the vector enc.vec.
EmbeddingBody(modelUp, enc) ==
    IF ~modelUp THEN Empty
    ELSE IF enc.raises THEN Empty
    ELSE enc.vec

\* Faulty variant of CacheStore: the result is returned but not stored.
CacheStoreMutSkip(c, q, val) == c

\* lru_cache on a miss: store the result, evicting the least recently used
\* entry when the cache is full.
CacheStore(c, q, val) ==
    IF Len(c) >= CACHE_MAX_SIZE
    THEN Append(Tail(c), <<q, val>>)
    ELSE Append(c, <<q, val>>)

\* Faulty variant of CacheCall: a hit does not make the entry the most
\* recently used one.
CacheCallMutFifo(c, q, modelUp, enc) ==
    LET i == CacheIndex(c, q) IN
    IF i # 0
    THEN [cache   |-> c,
          result  |-> c[i][2],
          hit     |-> TRUE,
          invoked |-> FALSE,
          evicts  |-> FALSE,
          evicted |-> q]
    ELSE LET val == EmbeddingBody(modelUp, enc) IN
         [cache   |-> CacheStore(c, q, val),
          result  |-> val,
          hit     |-> FALSE,
          invoked |-> modelUp,
          evicts  |-> Len(c) >= CACHE_MAX_SIZE /\ Len(c) > 0,
          evicted |-> IF Len(c) > 0 THEN c[1][1] ELSE q]

\* One call get_cached_embedding(q) on cache c.
CacheCall(c, q, modelUp, enc) ==
    LET i == CacheIndex(c, q) IN
    IF i # 0
    THEN [cache   |-> Append(RemoveAt(c, i), c[i]),
          result  |-> c[i][2],
          hit     |-> TRUE,
          invoked |-> FALSE,
          evicts  |-> FALSE,
          evicted |-> q]
    ELSE LET val == EmbeddingBody(modelUp, enc) IN
         [cache   |-> CacheStore(c, q, val),
          result  |-> val,
          hit     |-> FALSE,
          invoked |-> modelUp,
          evicts  |-> Len(c) >= CACHE_MAX_SIZE /\ Len(c) > 0,
          evicted |-> IF Len(c) > 0 THEN c[1][1] ELSE q]

\* What encode can do when called: raise while the capability is down, return
\* some vector while it is up.
EncodeOutcomes(up) ==
    IF up THEN {[raises |-> FALSE, vec |-> v] : v \in Vectors}
    ELSE {[raises |-> TRUE, vec |-> Empty]}

CacheIdle ==
    /\ embedding_model = TRUE
    /\ encodeUp = TRUE
    /\ cache = <<>>
    /\ encodeCalls = <<>>
    /\ evictions = <<>>
    /\ lastUse = <<>>
    /\ lastCall = NoCall
    /\ prevCall = NoCall

CacheInit ==
    /\ embedding_model \in BOOLEAN
    /\ encodeUp \in BOOLEAN
    /\ cache = <<>>
    /\ encodeCalls = [q \in Questions |-> 0]
    /\ evictions = [q \in Questions |-> 0]
    /\ lastUse = [q \in Questions |-> 0]
    /\ lastCall = NoCall
    /\ prevCall = NoCall

\* A call get_cached_embedding(q).
GetCachedEmbedding(q) ==
    /\ lastCall.n < MaxCalls
    /\ \E enc \in EncodeOutcomes(encodeUp) :
          LET r == CacheCall(cache, q, embedding_model, enc) IN
          /\ cache' = r.cache
          /\ encodeCalls' = IF r.invoked
                            THEN [encodeCalls EXCEPT ![q] = @ + 1]
                            ELSE encodeCalls
          /\ evictions' = IF r.evicts
                          THEN [evictions EXCEPT ![r.evicted] = @ + 1]
                          ELSE evictions
          /\ lastUse' = [lastUse EXCEPT ![q] = lastCall.n + 1]
          /\ lastCall' = [q |-> q, result |-> r.result, hit |-> r.hit,
                          invoked |-> r.invoked,
                          up |-> embedding_model /\ encodeUp,
                          n |-> lastCall.n + 1]
          /\ prevCall' = lastCall
    /\ UNCHANGED <<embedding_model, encodeUp>>
    /\ UNCHANGED exceptCache

\* The embedding capability starts failing.
EncodeFails ==
    /\ encodeUp
    /\ encodeUp' = FALSE
    /\ UNCHANGED <<embedding_model, cache, encodeCalls, evictions, lastUse,
                   lastCall, prevCall>>
    /\ UNCHANGED exceptCache

\* The embedding capability works again.
EncodeRecovers ==
    /\ ~encodeUp
    /\ encodeUp' = TRUE
    /\ UNCHANGED <<embedding_model, cache, encodeCalls, evictions, lastUse,
                   lastCall, prevCall>>
    /\ UNCHANGED exceptCache

CacheNext ==
    \/ \E q \in Questions : GetCachedEmbedding(q)
    \/ EncodeFails
    \/ EncodeRecovers

----------------------------------------------------------------------------
(***************************************************************************)
(* search_vector_database                                                   *)
(* Distances and similarities are in units of 0.0001; the similarity field  *)
(* of a result, round(similarity, 3), is in units of 0.001.                 *)
(***************************************************************************)

\* Config.SIMILARITY_THRESHOLD = 0.6, in units of 0.0001.
SIMILARITY_THRESHOLD == 6000
\* The distance 1.0 in units of 0.0001.
One == 10000
\* top_k arguments are 1..MaxTopK.
MaxTopK == 2
\* At most MaxSearches calls of search_vector_database are made in a run.
MaxSearches == 2
\* The question searched for: it only selects the cache key.
SearchQuestions == {1}

\* Candidates the vector index can return: a document, its metadata source
\* and its cosine distance.
Candidates ==
    { [document |-> "d1", source |-> "s1", distance |-> 3996],
      [document |-> "d2", source |-> "s2", distance |-> 4000],
      [document |-> "d3", source |-> "s1", distance |-> 4004] }

\* Sequences over S of length at most n.
RECURSIVE SeqsUpTo(_, _)
SeqsUpTo(S, n) ==
    IF n = 0 THEN {<<>>}
    ELSE LET shorter == SeqsUpTo(S, n - 1) IN
         shorter \cup {Append(s, x) : s \in {t \in shorter : Len(t) = n - 1}, x \in S}

\* What collection.query can do for n_results = n: raise a ChromaError, raise
\* another exception, or return at most n candidates, with or without the
\* distances and metadatas lists.
IndexOutcomes(cands, n) ==
    {[kind |-> "chroma_error", docs |-> <<>>, distances |-> FALSE, metadatas |-> FALSE],
     [kind |-> "error", docs |-> <<>>, distances |-> FALSE, metadatas |-> FALSE]}
    \cup {[kind |-> "ok", docs |-> d, distances |-> hd, metadatas |-> hm] :
            d \in SeqsUpTo(cands, n), hd \in BOOLEAN, hm \in BOOLEAN}

\* round(similarity, 3): to the nearest 0.001 (no modelled similarity lies
\* half-way between two thousandths).
Round3(similarity) == (similarity + 5) \div 10

\* The metadata source of a result without metadatas ({}): absent.
NoSource == "absent"

\* distance, similarity and the formatted result of candidate i.
Formatted(idx, i) ==
    LET distance   == IF idx.distances THEN idx.docs[i].distance ELSE One
        similarity == One - distance
    IN  [document   |-> idx.docs[i].document,
         source     |-> IF idx.metadatas THEN idx.docs[i].source ELSE NoSource,
         distance   |-> distance,
         similarity |-> Round3(similarity)]

\* Faulty variant of PassesThreshold: the filter is missing.
PassesThresholdMutAll(idx, i) == TRUE

\* similarity >= Config.SIMILARITY_THRESHOLD, on the unrounded similarity.
PassesThreshold(idx, i) ==
    One - (IF idx.distances THEN idx.docs[i].distance ELSE One) >= SIMILARITY_THRESHOLD

\* formatted_results: the candidates that pass the threshold, in index order.
RECURSIVE FormattedResults(_, _)
FormattedResults(idx, i) ==
    IF i > Len(idx.docs) THEN <<>>
    ELSE (IF PassesThreshold(idx, i) THEN <<Formatted(idx, i)>> ELSE <<>>)
         \o FormattedResults(idx, i + 1)

\* Faulty variant of Take: the slice is missing.
TakeMutAll(lst, n) == lst

\* lst[:n]
Take(lst, n) == SubSeq(lst, 1, IF Len(lst) < n THEN Len(lst) ELSE n)

\* search_vector_database after its initialisation test, given the query
\* embedding and what collection.query does: the list returned, or the
\* VectorDatabaseError raised.
SearchBody(query_embedding, top_k, idx) ==
    IF query_embedding = Empty
    THEN [raised |-> FALSE, docs |-> <<>>, queried |-> FALSE]
    ELSE IF idx.kind = "chroma_error"
    THEN [raised |-> TRUE, docs |-> <<>>, queried |-> TRUE]
    ELSE IF idx.kind = "error"
    THEN [raised |-> FALSE, docs |-> <<>>, queried |-> TRUE]
    ELSE [raised |-> FALSE,
          docs |-> Take(FormattedResults(idx, 1), top_k),
          queried |-> TRUE]

NoSearch == [n |-> 0, raised |-> FALSE, docs |-> <<>>, queried |-> FALSE]

NoIndex == [kind |-> "ok", docs |-> <<>>, distances |-> FALSE, metadatas |-> FALSE]

SearchIdle ==
    /\ collection = TRUE
    /\ searchReq = [question |-> 1, top_k |-> 1, idx |-> NoIndex]
    /\ searchOut = NoSearch

\* The arguments of the searches of a run and the answer of the index to
\* their query (at most n_results = top_k * 2 candidates).
SearchInit ==
    /\ collection \in BOOLEAN
    /\ \E q \in SearchQuestions, top_k \in 1..MaxTopK :
          \E idx \in IndexOutcomes(Candidates, top_k * 2) :
             searchReq = [question |-> q, top_k |-> top_k, idx |-> idx]
    /\ searchOut = NoSearch

\* search_vector_database(question, top_k) when embedding_model.encode does
\* one of encs and collection.query answers idx: its effect on the cache
\* and its outcome.
SearchStep(question, top_k, encs, idx) ==
    /\ IF ~collection \/ ~embedding_model
       THEN /\ searchOut' = [n |-> searchOut.n + 1, raised |-> FALSE,
                             docs |-> <<>>, queried |-> FALSE]
            /\ UNCHANGED cacheVars
       ELSE \E enc \in encs :
               LET r   == CacheCall(cache, question, embedding_model, enc)
                   out == SearchBody(r.result, top_k, idx)
               IN  /\ cache' = r.cache
                   /\ encodeCalls' = IF r.invoked
                                     THEN [encodeCalls EXCEPT ![question] = @ + 1]
                                     ELSE encodeCalls
                   /\ evictions' = IF r.evicts
                                   THEN [evictions EXCEPT ![r.evicted] = @ + 1]
                                   ELSE evictions
                   /\ lastUse' = [lastUse EXCEPT ![question] = lastCall.n + 1]
                   /\ lastCall' = [q |-> question, result |-> r.result,
                                   hit |-> r.hit, invoked |-> r.invoked,
                                   up |-> embedding_model /\ encodeUp,
                                   n |-> lastCall.n + 1]
                   /\ prevCall' = lastCall
                   /\ searchOut' = [n |-> searchOut.n + 1, raised |-> out.raised,
                                    docs |-> out.docs, queried |-> out.queried]
                   /\ UNCHANGED <<embedding_model, encodeUp>>
    /\ UNCHANGED <<collection, searchReq>>

\* A call search_vector_database(question, top_k).
SearchVectorDatabase(question, top_k, idx) ==
    /\ searchOut.n < MaxSearches
    /\ SearchStep(question, top_k, EncodeOutcomes(encodeUp), idx)
    /\ UNCHANGED exceptSearch

SearchNext ==
    \/ SearchVectorDatabase(searchReq.question, searchReq.top_k, searchReq.idx)
    \/ EncodeFails
    \/ EncodeRecovers

----------------------------------------------------------------------------
(***************************************************************************)
(* Strings.  A string is a sequence of characters over a small alphabet:    *)
(* "a", "b", "c" are ordinary characters, "?" stands for the three          *)
(* characters the lookups delete (full-width and ASCII question mark and    *)
(* the ideographic full stop), " " is whitespace, and "L", "W", "N" stand   *)
(* for the three text fragments of which the key phrases of the ranking are *)
(* made ("L" "W" is the third phrase, "W" the first, "L" "N" the second).   *)
(***************************************************************************)

\* s.replace("？", "").replace("?", "").replace("。", "")
StripPunct(s) == SelectSeq(s, LAMBDA ch : ch # "?")

\* sub in s, for a non-empty sub
Contains(sub, s) ==
    \E i \in 1..(Len(s) - Len(sub) + 1) : SubSeq(s, i, i + Len(sub) - 1) = sub

\* s.strip()
RECURSIVE LStrip(_)
LStrip(s) == IF s # <<>> /\ Head(s) = " " THEN LStrip(Tail(s)) ELSE s

RECURSIVE RStrip(_)
RStrip(s) ==
    IF s # <<>> /\ s[Len(s)] = " " THEN RStrip(SubSeq(s, 1, Len(s) - 1)) ELSE s

Strip(s) == RStrip(LStrip(s))

\* The truth value of "answer and answer.strip()".
NonBlank(answer) == answer # <<>> /\ Strip(answer) # <<>>

\* s.split(): the maximal runs of non-whitespace characters, in order.
RECURSIVE SplitFrom(_, _, _)
SplitFrom(s, i, word) ==
    IF i > Len(s)
    THEN IF word = <<>> THEN <<>> ELSE <<word>>
    ELSE IF s[i] = " "
         THEN (IF word = <<>> THEN <<>> ELSE <<word>>) \o SplitFrom(s, i + 1, <<>>)
         ELSE SplitFrom(s, i + 1, Append(word, s[i]))

Split(s) == SplitFrom(s, 1, <<>>)

\* any(keyword in text for keyword in words)
AnyIn(words, text) == \E k \in 1..Len(words) : Contains(words[k], text)

----------------------------------------------------------------------------
(***************************************************************************)
(* search_qa_database and find_preset_answer.  The FAQ table is the list    *)
(* of the <<question, answer>> items of qa_database in the order the loops  *)
(* over the categories and their questions visit them; the synonym table is *)
(* the list of the <<keyword, synonyms>> items.                             *)
(***************************************************************************)

\* Index of the first entry of table that satisfies Test, 0 when none does.
FirstIndex(table, Test(_)) ==
    IF \E i \in 1..Len(table) : Test(table[i])
    THEN CHOOSE i \in 1..Len(table) :
            /\ Test(table[i])
            /\ \A j \in 1..(i - 1) : ~Test(table[j])
    ELSE 0

\* Level 1: q == question or q == clean_question.
DirectMatch(faq, question) ==
    FirstIndex(faq, LAMBDA e : e[1] = question \/ e[1] = StripPunct(question))

\* Faulty variant of KeywordMatch: the keyword level never matches.
KeywordMatchMutNone(faq, question) == 0

\* Level 2: a whitespace-separated word of the stored question occurs in
\* the cleaned query.
KeywordMatch(faq, question) ==
    FirstIndex(faq, LAMBDA e : AnyIn(Split(StripPunct(e[1])), StripPunct(question)))

\* Level 3: the first keyword one of whose synonyms occurs in the cleaned
\* query and for which some stored question contains the keyword or one of
\* the synonyms; the first such question.
SynonymEntry(faq, k) ==
    FirstIndex(faq, LAMBDA e : Contains(k[1], e[1]) \/ AnyIn(k[2], e[1]))

SynonymMatch(faq, syn, question) ==
    LET k == FirstIndex(syn, LAMBDA kw :
                 /\ AnyIn(kw[2], StripPunct(question))
                 /\ SynonymEntry(faq, kw) # 0)
    IN  IF k = 0 THEN 0 ELSE SynonymEntry(faq, syn[k])

\* Faulty variant of FaqIndex: the direct-match level is missing.
FaqIndexMutNoDirect(faq, syn, question) ==
    IF KeywordMatch(faq, question) # 0 THEN KeywordMatch(faq, question)
    ELSE SynonymMatch(faq, syn, question)

\* Index of the entry whose answer search_qa_database returns, 0 for "".
FaqIndex(faq, syn, question) ==
    IF DirectMatch(faq, question) # 0 THEN DirectMatch(faq, question)
    ELSE IF KeywordMatch(faq, question) # 0 THEN KeywordMatch(faq, question)
    ELSE SynonymMatch(faq, syn, question)

\* Faulty variant of SearchQaDatabase: the FAQ table is never consulted.
SearchQaDatabaseMutNone(db, question) == <<>>

\* search_qa_database(question) on a loaded, well-formed qa_database; "" when
\* qa_database is missing or empty.
SearchQaDatabase(db, question) ==
    IF ~db.loaded THEN <<>>
    ELSE LET i == FaqIndex(db.faq, db.syn, question)
         IN  IF i = 0 THEN <<>> ELSE db.faq[i][2]

\* PRESET_QA: the built-in question -> answer table.  No key of the table
\* holds whitespace or one of the deleted characters.
PRESET_QA == << <<<<"b", "b">>, <<"p", "1">>>>,
                <<<<"c">>, <<"p", "2">>>> >>

\* Faulty variant of FindPresetAnswer: the preset table is never consulted.
FindPresetAnswerMutFaqOnly(db, question) ==
    IF db.loaded THEN SearchQaDatabase(db, Strip(question)) ELSE <<>>

\* find_preset_answer(question)
FindPresetAnswer(db, question) ==
    LET q      == Strip(question)
        answer == SearchQaDatabase(db, q)
        exact  == FirstIndex(PRESET_QA, LAMBDA e : e[1] = q)
        kw     == FirstIndex(PRESET_QA, LAMBDA e :
                      AnyIn(Split(StripPunct(e[1])), StripPunct(q)))
    IN  IF db.loaded /\ answer # <<>> THEN answer
        ELSE IF exact # 0 THEN PRESET_QA[exact][2]
        ELSE IF kw # 0 THEN PRESET_QA[kw][2]
        ELSE <<>>

----------------------------------------------------------------------------
(***************************************************************************)
(* chat: ranking                                                            *)
(* total_score is in units of 0.001, like the similarity field.             *)
(***************************************************************************)

\* The three key phrases calc_keyword_match_score looks for, in its order.
KEY_PHRASES == << <<"W">>, <<"L", "N">>, <<"L", "W">> >>

\* str.lower(): of the alphabet only "A" has a lower-case form.
Lower(s) == [i \in DOMAIN s |-> IF s[i] = "A" THEN "a" ELSE s[i]]

\* Faulty variant of CalcKeywordMatchScore: every key phrase of the document
\* counts, whether the question holds it or not.
CalcKeywordMatchScoreMutAll(doc, question) ==
    10 * Cardinality({k \in 1..Len(KEY_PHRASES) :
            Contains(Lower(KEY_PHRASES[k]), Lower(doc.document))})

\* calc_keyword_match_score(doc, question): 10 for each key phrase that
\* occurs in the question and, lower-cased, in the lower-cased document.
CalcKeywordMatchScore(doc, question) ==
    10 * Cardinality({k \in 1..Len(KEY_PHRASES) :
            /\ Contains(KEY_PHRASES[k], question)
            /\ Contains(Lower(KEY_PHRASES[k]), Lower(doc.document))})

\* total_score = similarity + (keyword_score * 0.05)
TotalScore(doc, question) == doc.similarity + CalcKeywordMatchScore(doc, question) * 50

\* Faulty variant of InsertDesc: an item goes in front of the items of
\* equal score.
RECURSIVE InsertDescMutUnstable(_, _)
InsertDescMutUnstable(sorted, x) ==
    IF sorted = <<>> THEN <<x>>
    ELSE IF Head(sorted).total_score > x.total_score
         THEN <<Head(sorted)>> \o InsertDescMutUnstable(Tail(sorted), x)
         ELSE <<x>> \o sorted

\* One step of list.sort(key = total_score, reverse = True): x goes behind
\* every item whose score is at least its own (the sort is stable).
RECURSIVE InsertDesc(_, _)
InsertDesc(sorted, x) ==
    IF sorted = <<>> THEN <<x>>
    ELSE IF Head(sorted).total_score >= x.total_score
         THEN <<Head(sorted)>> \o InsertDesc(Tail(sorted), x)
         ELSE <<x>> \o sorted

RECURSIVE SortDesc(_)
SortDesc(lst) ==
    IF lst = <<>> THEN <<>>
    ELSE InsertDesc(SortDesc(SubSeq(lst, 1, Len(lst) - 1)), lst[Len(lst)])

\* Faulty variant of ScoredDocs: the total score is written into the
\* similarity of the document.
ScoredDocsMutAnnotateInPlace(relevant_docs, question) ==
    SortDesc([i \in 1..Len(relevant_docs) |->
                 [total_score |-> TotalScore(relevant_docs[i], question),
                  doc |-> [relevant_docs[i] EXCEPT
                              !.similarity = TotalScore(relevant_docs[i], question)],
                  pos |-> i]])

\* scored_docs after the sort: (total_score, doc) for each retrieved
\* document; pos is the position the document had in relevant_docs.
ScoredDocs(relevant_docs, question) ==
    SortDesc([i \in 1..Len(relevant_docs) |->
                 [total_score |-> TotalScore(relevant_docs[i], question),
                  doc |-> relevant_docs[i],
                  pos |-> i]])

\* Source labels (the originals are Chinese strings).
FAQ_SOURCE == "FAQ database"
PRESET_SOURCE == "preset knowledge base"
AI_SOURCE == "AI language model"
SYSTEM_SOURCE == "system message"
UNKNOWN_SOURCE == "unknown source"

\* doc['metadata'].get('source', unknown)
SourceName(doc) == IF doc.source = NoSource THEN UNKNOWN_SOURCE ELSE doc.source

\* Faulty variant of SourcesOf: a source name is appended for every
\* document.
RECURSIVE SourcesOfMutAll(_, _)
SourcesOfMutAll(scored, sources) ==
    IF scored = <<>> THEN sources
    ELSE SourcesOfMutAll(Tail(scored), Append(sources, SourceName(Head(scored).doc)))

\* sources after the loop over scored_docs: each source name once, in the
\* order of first use.
RECURSIVE SourcesOf(_, _)
SourcesOf(scored, sources) ==
    IF scored = <<>> THEN sources
    ELSE LET name == SourceName(Head(scored).doc)
         IN  SourcesOf(Tail(scored),
                       IF \E i \in 1..Len(sources) : sources[i] = name
                       THEN sources ELSE Append(sources, name))

----------------------------------------------------------------------------
(***************************************************************************)
(* chat: the pipeline                                                       *)
(***************************************************************************)

\* Config.VECTOR_SEARCH_TOP_K
VECTOR_SEARCH_TOP_K == 5
\* The FAQ table of a run has at most MaxFaq entries.
MaxFaq == 2
\* The index answers a chat query with at most MaxChatCands candidates.
MaxChatCands == 2

\* The static texts of the responses, each a one-character string here.
CONTACT_MESSAGE == <<"AI service unavailable, contact the bureau">>
KB_MESSAGE == <<"knowledge base unavailable, contact the bureau">>
APOLOGY_MESSAGE == <<"an error occurred">>
DISCLAIMER == <<"no related data, contact the bureau">>

\* The validated messages (non-empty, stripped) of the requests.
Messages ==
    { <<"a">>, <<"a", "?">>, <<"c", "?">>, <<"d">>, <<"b", "b">>,
      <<"L", "W">> }

\* Stored questions and answers of the FAQ tables; the answer " " is blank.
FaqQuestions == { <<"a">>, <<"a", "?">>, <<"a", " ", "b">> }
FaqAnswers == { <<" ">>, <<"x">>, <<"y">> }
FaqTables == SeqsUpTo(FaqQuestions \X FaqAnswers, MaxFaq)
SynTables == { <<>>, << <<<<"a">>, << <<"L">> >> >> >> }

\* qa_database: not loaded (None), loaded without its FAQ key, or loaded.
QaDatabases ==
    {[loaded |-> FALSE, wellformed |-> TRUE, faq |-> <<>>, syn |-> <<>>],
     [loaded |-> TRUE, wellformed |-> FALSE, faq |-> <<>>, syn |-> <<>>]}
    \cup {[loaded |-> TRUE, wellformed |-> TRUE, faq |-> f, syn |-> y] :
            f \in FaqTables, y \in SynTables}

\* Candidates the index returns to a chat query.
ChatCandidates ==
    { [document |-> <<"L", "W">>, source |-> "s1", distance |-> 3000],
      [document |-> <<"c">>, source |-> "s2", distance |-> 3000] }

\* What collection.query does for a chat query; the query asks for the
\* distances and the metadatas, so the answer holds both.
ChatIndexOutcomes ==
    {o \in IndexOutcomes(ChatCandidates, MaxChatCands) :
        o.kind = "ok" => o.distances /\ o.metadatas}

\* What encode does for the message of the chat request.
ChatEncodeOutcomes(up) ==
    IF up THEN {[raises |-> FALSE, vec |-> <<1>>]}
    ELSE {[raises |-> TRUE, vec |-> Empty]}

\* What client.generate does: return a text or raise.
GenerateOutcomes == {[raises |-> FALSE, text |-> <<" ", "g">>],
                     [raises |-> TRUE, text |-> <<>>]}

NoResponse == [response |-> <<>>, sources |-> <<>>, success |-> FALSE]

\* Faulty variant of Handle: the clause for OllamaConnectionError is missing.
HandleMutNoOllama(exc) ==
    IF exc = "VectorDatabaseError"
    THEN [raised |-> "none",
          response |-> [response |-> KB_MESSAGE,
                        sources |-> <<SYSTEM_SOURCE>>, success |-> FALSE]]
    ELSE IF exc = "ValueError"
    THEN [raised |-> "HTTPException", response |-> NoResponse]
    ELSE [raised |-> "none",
          response |-> [response |-> APOLOGY_MESSAGE,
                        sources |-> <<>>, success |-> FALSE]]

\* Faulty variant of Handle: the final "except Exception" clause is missing.
HandleMutNoCatchAll(exc) ==
    IF exc = "OllamaConnectionError"
    THEN [raised |-> "none",
          response |-> [response |-> CONTACT_MESSAGE,
                        sources |-> <<SYSTEM_SOURCE>>, success |-> FALSE]]
    ELSE IF exc = "VectorDatabaseError"
    THEN [raised |-> "none",
          response |-> [response |-> KB_MESSAGE,
                        sources |-> <<SYSTEM_SOURCE>>, success |-> FALSE]]
    ELSE IF exc = "ValueError"
    THEN [raised |-> "HTTPException", response |-> NoResponse]
    ELSE [raised |-> exc, response |-> NoResponse]

\* The except clauses of chat: the response returned for an exception of
\* class exc raised in the try block, or the HTTPException raised.
Handle(exc) ==
    IF exc = "OllamaConnectionError"
    THEN [raised |-> "none",
          response |-> [response |-> CONTACT_MESSAGE,
                        sources |-> <<SYSTEM_SOURCE>>, success |-> FALSE]]
    ELSE IF exc = "VectorDatabaseError"
    THEN [raised |-> "none",
          response |-> [response |-> KB_MESSAGE,
                        sources |-> <<SYSTEM_SOURCE>>, success |-> FALSE]]
    ELSE IF exc = "ValueError"
    THEN [raised |-> "HTTPException", response |-> NoResponse]
    ELSE [raised |-> "none",
          response |-> [response |-> APOLOGY_MESSAGE,
                        sources |-> <<>>, success |-> FALSE]]

ChatStart(message) ==
    [pc |-> "start", message |-> message, relevant_docs |-> <<>>,
     scored_docs |-> <<>>, sources |-> <<>>, response |-> NoResponse,
     raised |-> "none", exc |-> "none", gen |-> "none", invoked |-> <<>>]

\* chat returns resp.
Return(c, resp) == [c EXCEPT !.pc = "done", !.response = resp]

\* chat leaves its try block with an exception of class exc.
Raise(c, exc) ==
    [c EXCEPT !.pc = "done", !.exc = exc,
              !.raised = Handle(exc).raised,
              !.response = Handle(exc).response]

ChatIdle ==
    /\ qa_database = [loaded |-> FALSE, wellformed |-> TRUE, faq |-> <<>>, syn |-> <<>>]
    /\ ollama_client = FALSE
    /\ chat = [ChatStart(<<>>) EXCEPT !.pc = "idle"]

ChatInit ==
    /\ qa_database \in QaDatabases
    /\ ollama_client \in BOOLEAN
    /\ \E m \in Messages : chat = ChatStart(m)

\* The cache and the retrieval capabilities at the start of a chat run.
ChatCacheInit ==
    /\ embedding_model = TRUE
    /\ encodeUp \in BOOLEAN
    /\ cache = <<>>
    /\ encodeCalls = [q \in Messages |-> 0]
    /\ evictions = [q \in Messages |-> 0]
    /\ lastUse = [q \in Messages |-> 0]
    /\ lastCall = NoCall
    /\ prevCall = NoCall

\* Faulty variant of ChatFaq: the retrieval is started even when the FAQ
\* lookup has an answer.
ChatFaqMutNoReturn ==
    /\ chat.pc = "start"
    /\ LET c == [chat EXCEPT !.invoked = Append(@, "faq")] IN
       IF qa_database.loaded /\ ~qa_database.wellformed
       THEN chat' = Raise(c, "KeyError")
       ELSE chat' = [c EXCEPT !.pc = "searching"]
    /\ UNCHANGED <<qa_database, ollama_client, cacheVars, searchVars>>
    /\ UNCHANGED exceptChat

\* Stage 0: the FAQ lookup, up to the await of async_vector_search.
ChatFaq ==
    /\ chat.pc = "start"
    /\ LET c == [chat EXCEPT !.invoked = Append(@, "faq")] IN
       IF qa_database.loaded /\ ~qa_database.wellformed
       THEN chat' = Raise(c, "KeyError")
       ELSE LET faq_answer == SearchQaDatabase(qa_database, chat.message) IN
            IF NonBlank(faq_answer)
            THEN chat' = Return(c, [response |-> faq_answer,
                                    sources |-> <<FAQ_SOURCE>>,
                                    success |-> TRUE])
            ELSE chat' = [c EXCEPT !.pc = "searching"]
    /\ UNCHANGED <<qa_database, ollama_client, cacheVars, searchVars>>
    /\ UNCHANGED exceptChat

\* Faulty variant of ChatSearchReturns: the VectorDatabaseError of the
\* retrieval is not caught at the call and reaches the except clauses.
ChatSearchReturnsMutPropagate(idx) ==
    /\ chat.pc = "searching"
    /\ SearchStep(chat.message, VECTOR_SEARCH_TOP_K,
                  ChatEncodeOutcomes(encodeUp), idx)
    /\ LET relevant_docs == searchOut'.docs
           c0 == [chat EXCEPT !.invoked = Append(@, "search"),
                              !.relevant_docs = relevant_docs]
           preset_answer == FindPresetAnswer(qa_database, chat.message)
           scored == ScoredDocs(relevant_docs, chat.message)
           c1 == IF relevant_docs = <<>>
                 THEN [c0 EXCEPT !.invoked = Append(@, "preset")]
                 ELSE [c0 EXCEPT !.scored_docs = scored,
                                 !.sources = SourcesOf(scored, <<>>)]
       IN  IF searchOut'.raised
           THEN chat' = Raise(c0, "VectorDatabaseError")
           ELSE IF relevant_docs = <<>> /\ NonBlank(preset_answer)
           THEN chat' = Return(c1, [response |-> preset_answer,
                                    sources |-> <<PRESET_SOURCE>>,
                                    success |-> TRUE])
           ELSE IF ~ollama_client
           THEN chat' = Raise([c1 EXCEPT !.gen = "uninitialised"],
                              "OllamaConnectionError")
           ELSE chat' = [c1 EXCEPT !.pc = "generating"]
    /\ UNCHANGED <<qa_database, ollama_client>>
    /\ UNCHANGED exceptChat

\* Stages 1 to 4: async_vector_search returns or raises; the preset
\* fallback, the ranking and the test of ollama_client follow, up to the
\* await of async_ollama_generate.
ChatSearchReturns(idx) ==
    /\ chat.pc = "searching"
    /\ SearchStep(chat.message, VECTOR_SEARCH_TOP_K,
                  ChatEncodeOutcomes(encodeUp), idx)
    /\ LET relevant_docs == IF searchOut'.raised THEN <<>> ELSE searchOut'.docs
           c0 == [chat EXCEPT !.invoked = Append(@, "search"),
                              !.relevant_docs = relevant_docs]
           preset_answer == FindPresetAnswer(qa_database, chat.message)
           scored == ScoredDocs(relevant_docs, chat.message)
           c1 == IF relevant_docs = <<>>
                 THEN [c0 EXCEPT !.invoked = Append(@, "preset")]
                 ELSE [c0 EXCEPT !.scored_docs = scored,
                                 !.sources = SourcesOf(scored, <<>>)]
       IN  IF relevant_docs = <<>> /\ NonBlank(preset_answer)
           THEN chat' = Return(c1, [response |-> preset_answer,
                                    sources |-> <<PRESET_SOURCE>>,
                                    success |-> TRUE])
           ELSE IF ~ollama_client
           THEN chat' = Raise([c1 EXCEPT !.gen = "uninitialised"],
                              "OllamaConnectionError")
           ELSE chat' = [c1 EXCEPT !.pc = "generating"]
    /\ UNCHANGED <<qa_database, ollama_client>>
    /\ UNCHANGED exceptChat

\* Stages 4 and 5: async_ollama_generate returns or raises; the answer is
\* assembled.
ChatGenerateReturns(gen) ==
    /\ chat.pc = "generating"
    /\ LET c == [chat EXCEPT !.invoked = Append(@, "generate")] IN
       IF gen.raises
       THEN chat' = Raise([c EXCEPT !.gen = "raised"], "OllamaConnectionError")
       ELSE LET answer == Strip(gen.text)
                c2 == [c EXCEPT !.gen = "returned"] IN
            IF chat.relevant_docs = <<>>
            THEN chat' = Return(c2, [response |-> answer \o DISCLAIMER,
                                    sources |-> <<AI_SOURCE>>,
                                    success |-> TRUE])
            ELSE chat' = Return([c2 EXCEPT !.sources = Append(@, AI_SOURCE)],
                                [response |-> answer,
                                 sources |-> Append(chat.sources, AI_SOURCE),
                                 success |-> TRUE])
    /\ UNCHANGED <<qa_database, ollama_client, cacheVars, searchVars>>
    /\ UNCHANGED exceptChat

ChatNext ==
    \/ ChatFaq
    \/ \E idx \in ChatIndexOutcomes : ChatSearchReturns(idx)
    \/ \E gen \in GenerateOutcomes : ChatGenerateReturns(gen)

----------------------------------------------------------------------------
(***************************************************************************)
(* get_nearby_locations                                                     *)
(*                                                                          *)
(* All points lie on the meridian of the request, so that the great-circle  *)
(* distance is the length of the arc between two latitudes.  A latitude is  *)
(* an integer: the arc from the request's latitude, in metres.  A hospital  *)
(* distance is in metres before rounding and in units of 0.01 km after.     *)
(***************************************************************************)

\* hospitals[:3]: the number of facilities kept per category.
PER_CATEGORY == 3
\* nearby_locations[:12]
HOSPITAL_LIMIT == 12
\* nearby_locations[:20], scaled down.
OFFICE_LIMIT == 2
\* map_data["hospitals"] has at most MaxHospitals records.
MaxHospitals == 4
\* map_data["labor_offices"] has at most MaxOffices records.
MaxOffices == 3

\* The values a coordinate field of a record can hold: a number, a string
\* that float() parses to a number, a string that float() rejects, or
\* nothing (None, or the key is absent).
Num(v) == [kind |-> "num", v |-> v]
NumStr(v) == [kind |-> "numstr", v |-> v]
BadStr == [kind |-> "badstr", v |-> 0]
Missing == [kind |-> "none", v |-> 0]

\* The rating text is a sequence of fragments: "M", "R" and "D" are the
\* keywords of the medical centres, the regional hospitals and the district
\* hospitals, "e" is any other text.
M_LEVEL == <<"M", "e">>
E_LEVEL == <<"e">>

HospitalRecords ==
    {[level |-> l, lat |-> Num(v), lng |-> Num(0)] :
        l \in {M_LEVEL, E_LEVEL}, v \in {1001, 1004}}
    \cup {[level |-> <<"D", "M">>, lat |-> Num(1004), lng |-> Num(0)],
          [level |-> <<"R">>, lat |-> Num(1001), lng |-> Num(0)],
          [level |-> <<"D">>, lat |-> Num(0 - 2000), lng |-> Num(0)],
          [level |-> E_LEVEL, lat |-> Missing, lng |-> Num(0)],
          [level |-> M_LEVEL, lat |-> Num(1001), lng |-> Missing],
          [level |-> E_LEVEL, lat |-> NumStr(1001), lng |-> Num(0)]}

OfficeRecords ==
    {[lat |-> c, lng |-> Num(0)] :
        c \in {Num(1001), Num(0 - 2000), NumStr(1004), BadStr, Missing}}

A_HOSPITAL == [level |-> E_LEVEL, lat |-> Num(1001), lng |-> Num(0)]
AN_OFFICE == [lat |-> Num(1001), lng |-> Num(0)]

Abs(x) == IF x < 0 THEN 0 - x ELSE x

\* calculate_distance(lat1, lon1, lat2, lon2) for lon1 = lon2: the haversine
\* distance is the arc between the two latitudes.
CalculateDistance(lat1, lon1, lat2, lon2) == Abs(lat2 - lat1)

\* round(distance_km, 2): metres to units of 0.01 km (no distance of the
\* model lies half way between two of them).
Round2(metres) == (metres + 5) \div 10

\* ((lat_diff ** 2 + lng_diff ** 2) ** 0.5) * 111 for lng_diff = 0
FlatDistance(lat_diff, lng_diff) == Abs(lat_diff) * 111

\* The keys of hospital_categories, in the order of the dict.
CATEGORIES == <<"medical_center", "regional", "district", "clinic">>

\* Faulty variant of Category: the keywords are tried in the reverse order.
CategoryMutReversed(level_text) ==
    IF Contains(<<"D">>, level_text) THEN CATEGORIES[3]
    ELSE IF Contains(<<"R">>, level_text) THEN CATEGORIES[2]
    ELSE IF Contains(<<"M">>, level_text) THEN CATEGORIES[1]
    ELSE CATEGORIES[4]

\* The category of a rating text: the first keyword it contains wins.
Category(level_text) ==
    IF Contains(<<"M">>, level_text) THEN CATEGORIES[1]
    ELSE IF Contains(<<"R">>, level_text) THEN CATEGORIES[2]
    ELSE IF Contains(<<"D">>, level_text) THEN CATEGORIES[3]
    ELSE CATEGORIES[4]

\* Faulty variant of InsertByDistance: the list keeps the order it had.
InsertByDistanceMutAppend(sorted, x) == Append(sorted, x)

\* One step of list.sort(key = distance): x goes behind every item that is
\* not farther (the sort is stable).
RECURSIVE InsertByDistance(_, _)
InsertByDistance(sorted, x) ==
    IF sorted = <<>> THEN <<x>>
    ELSE IF Head(sorted).distance <= x.distance
         THEN <<Head(sorted)>> \o InsertByDistance(Tail(sorted), x)
         ELSE <<x>> \o sorted

RECURSIVE SortByDistance(_)
SortByDistance(lst) ==
    IF lst = <<>> THEN <<>>
    ELSE InsertByDistance(SortByDistance(SubSeq(lst, 1, Len(lst) - 1)),
                          lst[Len(lst)])

\* hospital_info; pos is the position of the record in map_data["hospitals"].
HospitalInfo(hospital, pos, request) ==
    [pos |-> pos,
     type |-> "hospital",
     level |-> hospital.level,
     category |-> Category(hospital.level),
     latitude |-> hospital.lat.v,
     longitude |-> hospital.lng.v,
     distance |-> Round2(CalculateDistance(request.latitude, request.longitude,
                                           hospital.lat.v, hospital.lng.v))]

\* The loop over map_data["hospitals"] from record i on: the hospital_info of
\* every record with both coordinates, in the order of the records; the
\* subtraction in calculate_distance raises TypeError for a string.
RECURSIVE ScanHospitals(_, _, _, _)
ScanHospitals(hospitals, i, request, infos) ==
    IF i > Len(hospitals) THEN [exc |-> "none", infos |-> infos]
    ELSE LET hospital == hospitals[i] IN
         IF hospital.lat.kind = "none" \/ hospital.lng.kind = "none"
         THEN ScanHospitals(hospitals, i + 1, request, infos)
         ELSE IF hospital.lat.kind # "num" \/ hospital.lng.kind # "num"
         THEN [exc |-> "TypeError", infos |-> infos]
         ELSE ScanHospitals(hospitals, i + 1, request,
                            Append(infos, HospitalInfo(hospital, i, request)))

\* hospital_categories[category] after the loop.
InCategory(infos, category) == SelectSeq(infos, LAMBDA x : x.category = category)

\* nearby_locations after the loop over hospital_categories: for each
\* category from the k-th on, its list sorted by distance and cut to 3.
RECURSIVE ExtendByCategory(_, _)
ExtendByCategory(infos, k) ==
    IF k > Len(CATEGORIES) THEN <<>>
    ELSE Take(SortByDistance(InCategory(infos, CATEGORIES[k])), PER_CATEGORY)
         \o ExtendByCategory(infos, k + 1)

\* float(x)
Float(c) ==
    IF c.kind \in {"num", "numstr"} THEN [exc |-> "none", v |-> c.v]
    ELSE IF c.kind = "badstr" THEN [exc |-> "ValueError", v |-> 0]
    ELSE [exc |-> "TypeError", v |-> 0]

\* Faulty variant of ScanOffices: a record whose coordinates float() does not
\* accept is left out and the loop goes on.
RECURSIVE ScanOfficesMutSkip(_, _, _, _)
ScanOfficesMutSkip(offices, i, request, infos) ==
    IF i > Len(offices) THEN [exc |-> "none", infos |-> infos]
    ELSE LET office_lat == Float(offices[i].lat)
             office_lng == Float(offices[i].lng) IN
         IF office_lat.exc # "none" \/ office_lng.exc # "none"
         THEN ScanOfficesMutSkip(offices, i + 1, request, infos)
         ELSE ScanOfficesMutSkip(offices, i + 1, request,
                Append(infos,
                       [pos |-> i,
                        type |-> "labor_office",
                        level |-> <<>>,
                        category |-> "none",
                        latitude |-> office_lat.v,
                        longitude |-> office_lng.v,
                        distance |-> FlatDistance(request.latitude - office_lat.v,
                                                  request.longitude - office_lng.v)]))

\* The loop over map_data["labor_offices"] from record i on.
RECURSIVE ScanOffices(_, _, _, _)
ScanOffices(offices, i, request, infos) ==
    IF i > Len(offices) THEN [exc |-> "none", infos |-> infos]
    ELSE LET office_lat == Float(offices[i].lat)
             office_lng == Float(offices[i].lng) IN
         IF office_lat.exc # "none" THEN [exc |-> office_lat.exc, infos |-> infos]
         ELSE IF office_lng.exc # "none" THEN [exc |-> office_lng.exc, infos |-> infos]
         ELSE ScanOffices(offices, i + 1, request,
                Append(infos,
                       [pos |-> i,
                        type |-> "labor_office",
                        level |-> <<>>,
                        category |-> "none",
                        latitude |-> office_lat.v,
                        longitude |-> office_lng.v,
                        distance |-> FlatDistance(request.latitude - office_lat.v,
                                                  request.longitude - office_lng.v)]))

\* category_counts
CategoryCounts(locations) ==
    [k \in 1..Len(CATEGORIES) |-> Len(InCategory(locations, CATEGORIES[k]))]

NoGeo == [n |-> 0, raised |-> "none", success |-> FALSE, error |-> "none",
          locations |-> <<>>, total |-> 0, counts |-> CategoryCounts(<<>>)]

\* The except clauses of get_nearby_locations.
GeoHandle(exc) ==
    IF exc = "DataLoadError"
    THEN [NoGeo EXCEPT !.n = 1, !.error = "map data unavailable"]
    ELSE IF exc = "ValueError"
    THEN [NoGeo EXCEPT !.n = 1, !.raised = "HTTPException"]
    ELSE [NoGeo EXCEPT !.n = 1, !.error = "lookup failed"]

\* The body of get_nearby_locations.
NearbyLocations(data, request) ==
    IF ~data.loaded THEN GeoHandle("DataLoadError")
    ELSE LET scan == IF request.type = "hospital"
                     THEN ScanHospitals(data.hospitals, 1, request, <<>>)
                     ELSE ScanOffices(data.labor_offices, 1, request, <<>>)
         IN  IF scan.exc # "none" THEN GeoHandle(scan.exc)
             ELSE LET collected == IF request.type = "hospital"
                                   THEN ExtendByCategory(scan.infos, 1)
                                   ELSE scan.infos
                      nearby_locations == SortByDistance(collected)
                      result_locations ==
                          Take(nearby_locations,
                               IF request.type = "hospital"
                               THEN HOSPITAL_LIMIT ELSE OFFICE_LIMIT)
                  IN  [NoGeo EXCEPT !.n = 1,
                                    !.success = TRUE,
                                    !.locations = result_locations,
                                    !.total = Len(nearby_locations),
                                    !.counts = CategoryCounts(result_locations)]

GeoIdle ==
    /\ map_data = [loaded |-> FALSE, hospitals |-> <<>>, labor_offices |-> <<>>]
    /\ geoReq = [type |-> "hospital", latitude |-> 0, longitude |-> 0]
    /\ geoOut = NoGeo

\* The request of the run and the data load_map_data left: nothing, or two
\* lists that are not empty.  The list the request does not read is short.
GeoInit ==
    /\ geoReq \in [type : {"hospital", "labor_office"}, latitude : {0},
                   longitude : {0}]
    /\ \/ map_data = [loaded |-> FALSE, hospitals |-> <<>>, labor_offices |-> <<>>]
       \/ /\ geoReq.type = "hospital"
          /\ \E hs \in SeqsUpTo(HospitalRecords, MaxHospitals) \ {<<>>} :
                map_data = [loaded |-> TRUE, hospitals |-> hs,
                            labor_offices |-> <<AN_OFFICE>>]
       \/ /\ geoReq.type = "labor_office"
          /\ \E os \in SeqsUpTo(OfficeRecords, MaxOffices) \ {<<>>} :
                map_data = [loaded |-> TRUE, hospitals |-> <<A_HOSPITAL>>,
                            labor_offices |-> os]
    /\ geoOut = NoGeo

GetNearbyLocations(request) ==
    /\ geoOut.n = 0
    /\ geoOut' = NearbyLocations(map_data, request)
    /\ UNCHANGED <<map_data, geoReq>>
    /\ UNCHANGED exceptGeo

GeoNext == GetNearbyLocations(geoReq)

----------------------------------------------------------------------------
(***************************************************************************)
(* The ranking step of chat on its own: lines 862 to 903 applied to a       *)
(* retrieval result that is not empty.                                      *)
(***************************************************************************)

\* relevant_docs has at most MaxRankDocs documents.
MaxRankDocs == 3

RankTexts == { <<"L", "W">>, <<"L", "N">>, <<"c", "W">>, <<"c">> }

RankQuestions == { <<"L", "W">>, <<"W", "?">>, <<"L", "N">>, <<"d">> }

\* The documents search_vector_database can return: two distances (0.3 and
\* 0.2), one source.
RankDocs ==
    {[document |-> t, source |-> "s1", distance |-> d,
      similarity |-> Round3(One - d)] : t \in RankTexts, d \in {3000, 2000}}

NoRank == [n |-> 0, scored_docs |-> <<>>, sources |-> <<>>]

RankIdle ==
    /\ rankReq = [relevant_docs |-> <<>>, message |-> <<>>]
    /\ rankOut = NoRank

RankInit ==
    /\ rankReq \in [relevant_docs : SeqsUpTo(RankDocs, MaxRankDocs) \ {<<>>},
                    message : RankQuestions]
    /\ rankOut = NoRank

\* The block "if relevant_docs:" of chat.
Rank(relevant_docs, message) ==
    /\ rankOut.n = 0
    /\ LET scored == ScoredDocs(relevant_docs, message) IN
       rankOut' = [n |-> 1, scored_docs |-> scored,
                   sources |-> SourcesOf(scored, <<>>)]
    /\ UNCHANGED rankReq
    /\ UNCHANGED exceptRank

RankNext == Rank(rankReq.relevant_docs, rankReq.message)

----------------------------------------------------------------------------
(***************************************************************************)
(* The worker pool: executor = ThreadPoolExecutor(max_workers), the tasks  *)
(* run_in_executor submits to it and shutdown_event.                       *)
(***************************************************************************)

\* Config.THREAD_POOL_MAX_WORKERS (4 in the source), scaled down.
THREAD_POOL_MAX_WORKERS == 2
\* The tasks submitted over a run are numbered 1..MaxTasks.
MaxTasks == 4

\* executor after line 135: open, nothing submitted.  queue holds the tasks
\* no worker has taken yet, oldest first.
PoolInit ==
    executor = [state |-> "open", submitted |-> 0, queue |-> <<>>,
                running |-> {}, completed |-> {}, refused |-> FALSE,
                outstanding |-> 0]

\* loop.run_in_executor(executor, ...) of async_ollama_generate and
\* async_vector_search: the task joins the queue of the pool; once shutdown
\* has been called the submission raises RuntimeError instead.
Submit ==
    /\ executor.submitted < MaxTasks
    /\ IF executor.state = "open"
       THEN executor' = [executor EXCEPT
                            !.submitted = @ + 1,
                            !.queue = Append(@, executor.submitted + 1)]
       ELSE executor' = [executor EXCEPT !.refused = TRUE]
    /\ UNCHANGED exceptPool

\* A worker thread that is free takes the oldest task of the queue; the
\* workers go on taking tasks after shutdown has been called.
WorkerStart ==
    /\ executor.queue # <<>>
    /\ Cardinality(executor.running) < THREAD_POOL_MAX_WORKERS
    /\ executor' = [executor EXCEPT !.queue = Tail(@),
                                    !.running = @ \cup {Head(executor.queue)}]
    /\ UNCHANGED exceptPool

\* The call of a task returns or raises: the task is complete.
WorkerFinish(task) ==
    /\ task \in executor.running
    /\ executor' = [executor EXCEPT !.running = @ \ {task},
                                    !.completed = @ \cup {task}]
    /\ UNCHANGED exceptPool

\* Faulty variant of Drained: shutdown(wait=False).
DrainedMutNoWait(ex) == TRUE

\* What executor.shutdown(wait=True) waits for: the worker threads are
\* joined, and a worker exits only when the queue is empty and its task is
\* over.
Drained(ex) == ex.queue = <<>> /\ ex.running = {}

\* shutdown_event is called and calls executor.shutdown(wait=True).
ShutdownCalled ==
    /\ executor.state = "open"
    /\ executor' = [executor EXCEPT
                       !.state = "shutting_down",
                       !.outstanding = Len(executor.queue)
                                         + Cardinality(executor.running)]
    /\ UNCHANGED exceptPool

\* executor.shutdown(wait=True) returns and shutdown_event with it.
ShutdownReturns ==
    /\ executor.state = "shutting_down"
    /\ Drained(executor)
    /\ executor' = [executor EXCEPT !.state = "closed"]
    /\ UNCHANGED exceptPool

PoolNext ==
    \/ Submit
    \/ WorkerStart
    \/ \E task \in 1..MaxTasks : WorkerFinish(task)
    \/ ShutdownCalled
    \/ ShutdownReturns

----------------------------------------------------------------------------
(***************************************************************************)
(* search_qa_database on its own, over FAQ tables and keyword tables with   *)
(* several entries.                                                         *)
(***************************************************************************)

\* The questions put to the FAQ table.
FaqQueries == { <<"a">>, <<"a", "?">>, <<"b", "?">>, <<"L", "W">>, <<"d">> }

\* 快速查詢關鍵詞: keyword -> synonyms, in the order of the dict.
KEYWORD_A == << <<"a">>, << <<"L">> >> >>
KEYWORD_B == << <<"b">>, << <<"W">> >> >>
FaqKeywordTables ==
    { <<>>, <<KEYWORD_A>>, <<KEYWORD_A, KEYWORD_B>>, <<KEYWORD_B, KEYWORD_A>> }

FaqDatabases ==
    {[loaded |-> FALSE, wellformed |-> TRUE, faq |-> <<>>, syn |-> <<>>],
     [loaded |-> TRUE, wellformed |-> FALSE, faq |-> <<>>, syn |-> <<>>]}
    \cup {[loaded |-> TRUE, wellformed |-> TRUE, faq |-> f, syn |-> y] :
            f \in FaqTables, y \in FaqKeywordTables}

NoFaq == [n |-> 0, answer |-> <<>>, raised |-> "none"]

FaqIdle ==
    /\ faqReq = [db |-> [loaded |-> FALSE, wellformed |-> TRUE,
                         faq |-> <<>>, syn |-> <<>>],
                 question |-> <<>>]
    /\ faqOut = NoFaq

FaqInit ==
    /\ faqReq \in [db : FaqDatabases, question : FaqQueries]
    /\ faqOut = NoFaq

\* search_qa_database(question); qa_database["常見問題"] raises KeyError when
\* the loaded file has no such key.
SearchQa(db, question) ==
    /\ faqOut.n = 0
    /\ IF db.loaded /\ ~db.wellformed
       THEN faqOut' = [n |-> 1, answer |-> <<>>, raised |-> "KeyError"]
       ELSE faqOut' = [n |-> 1, answer |-> SearchQaDatabase(db, question),
                       raised |-> "none"]
    /\ UNCHANGED faqReq
    /\ UNCHANGED exceptFaq

FaqNext == SearchQa(faqReq.db, faqReq.question)

----------------------------------------------------------------------------
(***************************************************************************)
(* Specifications, one per component                                        *)
(***************************************************************************)

InitRate == RateInit /\ PoolInit /\ CacheIdle /\ SearchIdle /\ ChatIdle /\ GeoIdle /\ RankIdle /\ FaqIdle

SpecRate == InitRate /\ [][RateNext]_vars

InitConcurrent ==
    RateInit /\ PoolInit /\ CacheIdle /\ SearchIdle /\ ChatIdle /\ GeoIdle /\ RankIdle /\ FaqIdle

SpecConcurrent == InitConcurrent /\ [][ConcurrentNext]_vars

InitSweep ==
    RateInit /\ PoolInit /\ CacheIdle /\ SearchIdle /\ ChatIdle /\ GeoIdle /\ RankIdle /\ FaqIdle

SpecSweep == InitSweep /\ [][SweepNext]_vars

InitCache == RateInit /\ PoolInit /\ CacheInit /\ SearchIdle /\ ChatIdle /\ GeoIdle /\ RankIdle /\ FaqIdle

SpecCache == InitCache /\ [][CacheNext]_vars

InitSearch == RateInit /\ PoolInit /\ CacheInit /\ SearchInit /\ ChatIdle /\ GeoIdle /\ RankIdle /\ FaqIdle

SpecSearch == InitSearch /\ [][SearchNext]_vars

InitChat ==
    RateInit /\ PoolInit /\ ChatCacheInit /\ SearchIdle /\ ChatInit /\ GeoIdle /\ RankIdle /\ FaqIdle

SpecChat == InitChat /\ [][ChatNext]_vars

\* chat as the event loop runs it: the synchronous code of the coroutine is
\* executed, and the coroutine resumes after an await only when the offloaded
\* call returns or raises.  run_in_executor is awaited as it is, without
\* wait_for or any other deadline, so nothing but the call itself takes the
\* coroutine out of the await; whether the call returns is up to the
\* capability behind it.
SpecChatAwaiting == InitChat /\ [][ChatNext]_vars /\ WF_vars(ChatFaq)

\* The same when every offloaded call returns or raises in the end.
SpecChatReturning ==
    /\ InitChat
    /\ [][ChatNext]_vars
    /\ WF_vars(ChatFaq)
    /\ WF_vars(\E idx \in ChatIndexOutcomes : ChatSearchReturns(idx))
    /\ WF_vars(\E gen \in GenerateOutcomes : ChatGenerateReturns(gen))

InitGeo == RateInit /\ PoolInit /\ CacheIdle /\ SearchIdle /\ ChatIdle /\ GeoInit /\ RankIdle /\ FaqIdle

SpecGeo == InitGeo /\ [][GeoNext]_vars

InitRank == RateInit /\ PoolInit /\ CacheIdle /\ SearchIdle /\ ChatIdle /\ GeoIdle /\ RankInit /\ FaqIdle

SpecRank == InitRank /\ [][RankNext]_vars

InitPool ==
    RateInit /\ PoolInit /\ CacheIdle /\ SearchIdle /\ ChatIdle /\ GeoIdle /\ RankIdle /\ FaqIdle

SpecPool == InitPool /\ [][PoolNext]_vars

InitFaq ==
    RateInit /\ PoolInit /\ CacheIdle /\ SearchIdle /\ ChatIdle /\ GeoIdle /\ RankIdle
    /\ FaqInit

SpecFaq == InitFaq /\ [][FaqNext]_vars

----------------------------------------------------------------------------
(***************************************************************************)
(* Properties of get_cached_embedding                                       *)
(***************************************************************************)

\* C3: two successive calls of get_cached_embedding(q) return the same
\* vector and the second is a cache hit that does not invoke encode; over a
\* whole run encode is invoked for q only once, plus once for each time the
\* entry of q was evicted.
C3_SecondCallHits ==
    /\ (prevCall.n > 0 /\ prevCall.q = lastCall.q)
          => /\ lastCall.hit
             /\ ~lastCall.invoked
             /\ lastCall.result = prevCall.result
    /\ \A q \in Questions : encodeCalls[q] <= evictions[q] + 1

\* The second of two successive calls for q returned the vector encode
\* produced for the first, and encode ran once.
C3_Witness ==
    /\ prevCall.n > 0
    /\ prevCall.q = lastCall.q
    /\ ~prevCall.hit
    /\ lastCall.hit
    /\ lastCall.result \in Vectors
    /\ encodeCalls[lastCall.q] = 1

\* C4: a call that meets a failing embedding capability returns () and the
\* empty result is not kept: a call made while the capability works returns
\* a non-empty vector.
C4_EmptyNotCached ==
    /\ (lastCall.n > 0 /\ ~lastCall.up) => lastCall.result = Empty
    /\ (lastCall.n > 0 /\ lastCall.up) => lastCall.result \in Vectors

\* The keys of the entries of cache c.
CachedKeys(c) == {c[i][1] : i \in 1..Len(c)}

\* C17: no call leaves more than CACHE_MAX_SIZE entries in the cache, nor a
\* key twice; an entry leaves the cache only when a call inserts a new key
\* into a full cache, and it is then the entry whose last use (insertion or
\* hit) is the oldest.
C17_BoundedLru ==
    [][/\ Len(cache') <= CACHE_MAX_SIZE
       /\ Cardinality(CachedKeys(cache')) = Len(cache')
       /\ \A e \in CachedKeys(cache) \ CachedKeys(cache') :
             /\ Len(cache) = CACHE_MAX_SIZE
             /\ lastCall'.q \notin CachedKeys(cache)
             /\ CachedKeys(cache') = (CachedKeys(cache) \ {e}) \cup {lastCall'.q}
             /\ \A k \in CachedKeys(cache) : lastUse[e] <= lastUse[k]]_vars

\* The cache was filled, its oldest entry was hit, and the next call
\* inserted a new key: the entry evicted is not the one inserted first, and
\* the entry that was hit is still there.
C17_Witness ==
    /\ lastCall.n = CACHE_MAX_SIZE + 2
    /\ ~lastCall.hit
    /\ lastCall.result \in Vectors
    /\ prevCall.hit
    /\ Len(cache) = CACHE_MAX_SIZE
    /\ prevCall.q \in CachedKeys(cache)
    /\ lastUse[prevCall.q] = lastCall.n - 1
    /\ encodeCalls[prevCall.q] <= 1
    /\ \E q \in DOMAIN evictions :
          /\ evictions[q] = 1
          /\ lastUse[q] > 1
          /\ q \notin CachedKeys(cache)

----------------------------------------------------------------------------
(***************************************************************************)
(* Properties of RateLimitMiddleware                                        *)
(***************************************************************************)

\* Number of admitted timestamps of client c in the trailing interval
\* (t - RATE_LIMIT_WINDOW, t].
AdmittedInWindow(c, t) ==
    Cardinality({i \in 1..Len(admitted[c]) :
                    /\ admitted[c][i] <= t
                    /\ t - admitted[c][i] < RATE_LIMIT_WINDOW})

\* C1: for every client and every trailing interval of RATE_LIMIT_WINDOW
\* seconds, the number of admitted /api/ requests whose timestamps fall in
\* the interval is at most RATE_LIMIT_REQUESTS.
C1_WindowBound ==
    \A c \in Clients, t \in Times : AdmittedInWindow(c, t) <= RATE_LIMIT_REQUESTS

\* The limit is binding: a client was admitted more than RATE_LIMIT_REQUESTS
\* times over the run, its window is full and its last request got a 429.
C1_Witness ==
    /\ lastResp.status = 429
    /\ Len(admitted[lastResp.client]) > RATE_LIMIT_REQUESTS
    /\ AdmittedInWindow(lastResp.client, now) = RATE_LIMIT_REQUESTS

\* C2: when a client holds RATE_LIMIT_REQUESTS timestamps, its next /api/
\* request is rejected with 429 exactly while the oldest retained timestamp
\* is less than RATE_LIMIT_WINDOW old, and is admitted once it has expired.
C2_RejectUntilOldestExpires ==
    [][\A c \in Clients :
          (/\ Len(Get(request_counts, c)) = RATE_LIMIT_REQUESTS
           /\ lastResp'.client = c
           /\ lastResp'.api)
          => /\ lastResp'.status \in {200, 429}
             /\ lastResp'.status = 429
                  <=> now' - Get(request_counts, c)[1] < RATE_LIMIT_WINDOW
             /\ lastResp'.status = 200
                  => /\ lastResp'.forwarded
                     /\ admitted'[c] = Append(admitted[c], now')]_vars

\* A request arriving exactly when the oldest timestamp of a full window
\* expires was admitted.
C2_Witness ==
    /\ lastResp.api
    /\ lastResp.status = 200
    /\ Len(admitted[lastResp.client]) = RATE_LIMIT_REQUESTS + 1
    /\ lastResp.time = admitted[lastResp.client][1] + RATE_LIMIT_WINDOW
    /\ admitted[lastResp.client][RATE_LIMIT_REQUESTS] = admitted[lastResp.client][1]

\* The timestamps of client c that a request arriving at time t would count.
Counted(counts, c, t) == Prune(Get(counts, c), t)

\* C16: a request outside /api/ is forwarded, never answered 429, whatever
\* the client has sent; it records no timestamp, and what any later request
\* of any client would count is what it would have counted without it.
C16_OtherPathsExempt ==
    [][(lastResp'.client # None /\ ~lastResp'.api)
       => /\ lastResp'.status = 200
          /\ lastResp'.forwarded
          /\ admitted' = admitted
          /\ \A c \in Clients :
                /\ Len(Get(request_counts', c)) <= Len(Get(request_counts, c))
                /\ \A t \in Times :
                      t >= now' => Counted(request_counts', c, t)
                                     = Counted(request_counts, c, t)]_vars

\* A client whose window is full sent a request outside /api/ and it was
\* forwarded.
C16_Witness ==
    /\ lastResp.client # None
    /\ ~lastResp.api
    /\ lastResp.forwarded
    /\ Len(Counted(request_counts, lastResp.client, now)) = RATE_LIMIT_REQUESTS

\* Every timestamp of a sequence is less than RATE_LIMIT_WINDOW old at time t.
AllInWindow(lst, t) ==
    \A i \in 1..Len(lst) : t - lst[i] < RATE_LIMIT_WINDOW

\* No client's sequence has more than RATE_LIMIT_REQUESTS entries.
AtMostMaxRequests ==
    \A c \in Clients : Len(Get(request_counts, c)) <= RATE_LIMIT_REQUESTS

\* C25, as stated: after every request of a client that passed through
\* dispatch, whatever its path, the sequence of the client holds only
\* timestamps less than RATE_LIMIT_WINDOW old; and no sequence ever has more
\* than RATE_LIMIT_REQUESTS entries.
C25_EveryAccessLeavesWindow ==
    /\ lastResp.client # None
          => AllInWindow(Get(request_counts, lastResp.client), lastResp.time)
    /\ AtMostMaxRequests

\* C25, amended: after every /api/ request of a client the sequence of the
\* client holds only timestamps less than RATE_LIMIT_WINDOW old; and no
\* sequence ever has more than RATE_LIMIT_REQUESTS entries.
C25_ApiAccessLeavesWindow ==
    /\ (lastResp.client # None /\ lastResp.api)
          => AllInWindow(Get(request_counts, lastResp.client), lastResp.time)
    /\ AtMostMaxRequests

\* An /api/ request of a client dropped an expired timestamp of a full
\* sequence and was admitted.
C25_Witness ==
    /\ lastResp.api
    /\ lastResp.status = 200
    /\ ~lastResp.swept
    /\ Len(admitted[lastResp.client]) = RATE_LIMIT_REQUESTS + 1
    /\ Len(Get(request_counts, lastResp.client)) = RATE_LIMIT_REQUESTS
    /\ lastResp.time - admitted[lastResp.client][1] >= RATE_LIMIT_WINDOW

\* The timestamps of a sequence that are less than RATE_LIMIT_WINDOW old.
Live(lst) == SelectSeq(lst, LAMBDA ts : now - ts < RATE_LIMIT_WINDOW)

\* The calls between the prune and the append of their client's list.
InSequence(c) ==
    {h \in Handlers : /\ handlers[h].client_ip = c
                      /\ handlers[h].pc \in {"prune", "count", "append"}}

\* C23: with several dispatch calls in progress, at most one of them is
\* between its prune and its append; the list of every client holds every
\* admitted timestamp of the client that is less than RATE_LIMIT_WINDOW old,
\* in the order of admission, and never more than RATE_LIMIT_REQUESTS
\* entries; and no trailing interval of RATE_LIMIT_WINDOW seconds has more
\* than RATE_LIMIT_REQUESTS admitted requests of a client.
C23_SequencesDoNotInterleave ==
    \A c \in Clients :
       /\ Cardinality(InSequence(c)) <= 1
       /\ Live(Get(request_counts, c)) = Live(admitted[c])
       /\ Len(Get(request_counts, c)) <= RATE_LIMIT_REQUESTS
       /\ \A t \in Times :
             Cardinality({i \in 1..Len(admitted[c]) :
                             /\ admitted[c][i] <= t
                             /\ t - admitted[c][i] < RATE_LIMIT_WINDOW})
                <= RATE_LIMIT_REQUESTS

\* A request of a client was admitted while an earlier admitted request of
\* the same client was still suspended at call_next, and a later request of
\* the client runs its check against the full list.
C23_Witness ==
    \E h1, h2 \in Handlers :
       /\ h1 # h2
       /\ handlers[h1].client_ip = handlers[h2].client_ip
       /\ handlers[h1].pc = "awaiting" /\ handlers[h1].api
       /\ handlers[h2].pc = "count"
       /\ running = h2
       /\ Len(Get(request_counts, handlers[h1].client_ip)) = RATE_LIMIT_REQUESTS
       /\ Len(admitted[handlers[h1].client_ip]) > RATE_LIMIT_REQUESTS

\* The client would be admitted by an /api/ request arriving at time t, the
\* map being counts.
WouldAdmit(counts, c, t) ==
    Len(SelectSeq(Get(counts, c), LAMBDA ts : t - ts < RATE_LIMIT_WINDOW))
       < RATE_LIMIT_REQUESTS

\* C33: a request answered 429 is not forwarded and records nothing: the
\* admitted timestamps are the same, the sequence of the client gains no
\* entry, and at every later time the client would be admitted or rejected
\* as it would have been without the rejected request.
C33_RejectedLeavesNoTrace ==
    [][lastResp'.status = 429
       => LET c == lastResp'.client IN
          /\ ~lastResp'.forwarded
          /\ admitted' = admitted
          /\ Len(Get(request_counts', c)) <= Len(Get(request_counts, c))
          /\ \A i \in 1..Len(Get(request_counts', c)) :
                \E k \in 1..Len(Get(request_counts, c)) :
                   Get(request_counts, c)[k] = Get(request_counts', c)[i]
          /\ \A t \in Times :
                t >= now' => (WouldAdmit(request_counts', c, t)
                                <=> WouldAdmit(request_counts, c, t))]_vars

\* A client whose window was full was rejected after its last admission, and
\* its sequence holds the admitted timestamps only.
C33_Witness ==
    /\ lastResp.status = 429
    /\ ~lastResp.forwarded
    /\ Len(Get(request_counts, lastResp.client)) = RATE_LIMIT_REQUESTS
    /\ \A i \in 1..RATE_LIMIT_REQUESTS :
          Get(request_counts, lastResp.client)[i] < lastResp.time

\* C34: fed the same requests, dispatch and a middleware that never sweeps
\* give every request the same status; their maps hold, for every client,
\* the same timestamps less than RATE_LIMIT_WINDOW old, so that at every
\* later time they would admit or reject the client alike.
C34_SweepNeverChangesDecision ==
    /\ lastResp.client # None => lastResp.status = unsweptStatus
    /\ \A c \in Clients :
          /\ Live(Get(request_counts, c)) = Live(Get(unswept, c))
          /\ \A t \in Times :
                t >= now => (WouldAdmit(request_counts, c, t)
                               <=> WouldAdmit(unswept, c, t))

\* A sweep deleted the key of a client, which the middleware without sweep
\* still holds, and a later request, during which no sweep ran, was rejected
\* by both.
C34_Witness ==
    /\ lastResp.status = 429
    /\ unsweptStatus = 429
    /\ ~lastResp.swept
    /\ \E c \in DOMAIN unswept : c \notin DOMAIN request_counts

\* A later request of a client whose key the sweep had deleted was admitted
\* by both.
AdmittedAfterSweep ==
    /\ lastResp.status = 200 /\ lastResp.api
    /\ unsweptStatus = 200
    /\ Len(admitted[lastResp.client]) > 1
    /\ Len(Get(request_counts, lastResp.client)) = 1
    /\ \E c \in DOMAIN unswept : c \notin DOMAIN request_counts

\* The clients with an admitted request less than RATE_LIMIT_WINDOW old.
RecentClients == {c \in Clients : AdmittedInWindow(c, now) > 0}

\* C26: after the request during which a sweep ran, at the time T the
\* request arrived, no key of the map has an empty sequence, every key has a
\* timestamp newer than T - RATE_LIMIT_WINDOW, and there are no more keys
\* than clients with an admitted request within the last window.
C26_SweepLeavesLiveKeys ==
    lastResp.swept
    => /\ \A ip \in DOMAIN request_counts :
             /\ request_counts[ip] # <<>>
             /\ \E i \in 1..Len(request_counts[ip]) :
                   lastResp.time - request_counts[ip][i] < RATE_LIMIT_WINDOW
       /\ Cardinality(DOMAIN request_counts) <= Cardinality(RecentClients)

\* A sweep ran during a request outside /api/: it deleted the key of a
\* client whose timestamps had all expired and kept the key of another.
C26_Witness ==
    /\ lastResp.swept
    /\ ~lastResp.api
    /\ DOMAIN request_counts # {}
    /\ \E c \in Clients : admitted[c] # <<>> /\ c \notin DOMAIN request_counts

----------------------------------------------------------------------------
(***************************************************************************)
(* Properties of search_vector_database                                     *)
(***************************************************************************)

\* C5: search_vector_database returns at most top_k documents, and every
\* returned document has similarity 1 - distance, and the similarity field
\* it reports, at or above SIMILARITY_THRESHOLD.
C5_ThresholdAndTopK ==
    /\ Len(searchOut.docs) <= searchReq.top_k
    /\ \A i \in 1..Len(searchOut.docs) :
          /\ One - searchOut.docs[i].distance >= SIMILARITY_THRESHOLD
          /\ searchOut.docs[i].similarity * 10 >= SIMILARITY_THRESHOLD

\* A search whose index response held more than top_k candidates at or above
\* the threshold and one below it returned exactly top_k documents.
C5_Witness ==
    /\ searchOut.n > 0
    /\ Len(searchOut.docs) = searchReq.top_k
    /\ searchReq.idx.distances
    /\ Cardinality({i \in 1..Len(searchReq.idx.docs) :
            One - searchReq.idx.docs[i].distance >= SIMILARITY_THRESHOLD})
          > searchReq.top_k
    /\ \E i \in 1..Len(searchReq.idx.docs) :
          One - searchReq.idx.docs[i].distance < SIMILARITY_THRESHOLD

\* The last search got an answer from the index.
IndexAnswered ==
    searchOut.n > 0 /\ searchOut.queried /\ searchReq.idx.kind = "ok"

\* The positions, in the answer of the index, of the candidates at or above
\* the threshold.
Passing ==
    {i \in 1..Len(searchReq.idx.docs) :
        /\ searchReq.idx.distances
        /\ One - searchReq.idx.docs[i].distance >= SIMILARITY_THRESHOLD}

\* The j-th position of Passing.
NthPassing(j) ==
    CHOOSE i \in Passing : Cardinality({k \in Passing : k < i}) = j - 1

\* The index answered nearest first.
NearestFirst ==
    \A i, j \in 1..Len(searchReq.idx.docs) :
        i < j => searchReq.idx.docs[i].distance <= searchReq.idx.docs[j].distance

\* The returned list is in descending order of similarity (1 - distance) and
\* each of its documents is among the top_k most similar passing candidates.
DescendingTopK ==
    /\ Len(searchOut.docs)
         = IF Cardinality(Passing) < searchReq.top_k
           THEN Cardinality(Passing) ELSE searchReq.top_k
    /\ \A i, j \in 1..Len(searchOut.docs) :
          i < j => searchOut.docs[i].distance <= searchOut.docs[j].distance
    /\ \A j \in 1..Len(searchOut.docs) :
          Cardinality({i \in Passing : searchReq.idx.docs[i].distance
                                         < searchOut.docs[j].distance})
            < searchReq.top_k

\* C18 as stated: whatever the order of the candidates in the answer of the
\* index, the returned list is in descending order of similarity and holds
\* the top_k most similar candidates that pass the threshold.
C18_DescendingTopKForEveryOrder ==
    IndexAnswered => DescendingTopK

\* C18 amended: the returned list holds the first top_k passing candidates
\* in the order of the answer of the index; it is in descending order of
\* similarity and holds the top_k most similar passing candidates when the
\* index answers nearest first.
C18_FirstTopKInIndexOrder ==
    IndexAnswered
    => /\ Len(searchOut.docs)
            = IF Cardinality(Passing) < searchReq.top_k
              THEN Cardinality(Passing) ELSE searchReq.top_k
       /\ \A j \in 1..Len(searchOut.docs) :
             LET cand == searchReq.idx.docs[NthPassing(j)] IN
             /\ searchOut.docs[j].document = cand.document
             /\ searchOut.docs[j].distance = cand.distance
       /\ NearestFirst => DescendingTopK

\* The index answered nearest first with more passing candidates than top_k
\* at different distances, and the search returned the nearest.
C18_Witness ==
    /\ IndexAnswered
    /\ NearestFirst
    /\ Cardinality(Passing) > searchReq.top_k
    /\ searchReq.idx.docs[1].distance < searchReq.idx.docs[2].distance
    /\ Len(searchOut.docs) = searchReq.top_k
    /\ searchOut.docs[1].document = searchReq.idx.docs[1].document

\* The last search queried the index and collection.query raised.
IndexErrored ==
    searchOut.n > 0 /\ searchOut.queried /\ searchReq.idx.kind # "ok"

\* The last search found the collection or the embedding model missing, got
\* no embedding, or got no candidate from the index.
NothingToSearch ==
    /\ searchOut.n > 0
    /\ \/ ~collection
       \/ ~embedding_model
       \/ ~searchOut.queried
       \/ searchReq.idx.kind = "ok" /\ searchReq.idx.docs = <<>>

\* C13: search_vector_database raises VectorDatabaseError whenever the query
\* of the index raises, and returns an empty list without raising when the
\* collection or the embedding model is missing, when there is no embedding
\* and when the index returns no candidate.
C13_IndexErrorsRaise ==
    /\ IndexErrored => searchOut.raised
    /\ NothingToSearch => ~searchOut.raised /\ searchOut.docs = <<>>

\* What holds of the code: the search raises exactly when the query of the
\* index raises a ChromaError, and returns an empty list for every other
\* exception of the query.
OnlyChromaErrorsRaise ==
    searchOut.n > 0
    => /\ searchOut.raised <=> (searchOut.queried /\ searchReq.idx.kind = "chroma_error")
       /\ (IndexErrored \/ NothingToSearch) => searchOut.docs = <<>>

----------------------------------------------------------------------------
(***************************************************************************)
(* Properties of chat                                                       *)
(***************************************************************************)

\* The FAQ table is loaded and well formed and holds the message as one of
\* its questions.
MessageIsStoredQuestion ==
    /\ qa_database.loaded
    /\ qa_database.wellformed
    /\ \E i \in 1..Len(qa_database.faq) : qa_database.faq[i][1] = chat.message

\* C7 as stated: when the message equals a stored FAQ question, chat returns
\* the stored answer of that question with the FAQ label as only source and
\* success = true.
C7_ExactMatchReturnsItsAnswer ==
    (chat.pc = "done" /\ MessageIsStoredQuestion)
    => /\ \E i \in 1..Len(qa_database.faq) :
             /\ qa_database.faq[i][1] = chat.message
             /\ chat.response.response = qa_database.faq[i][2]
       /\ chat.response.sources = <<FAQ_SOURCE>>
       /\ chat.response.success

\* C7 amended: when the message equals a stored FAQ question, the entry that
\* answers is the first one in table order whose question equals the message
\* or the message without its question marks and full stops; if the answer
\* of that entry is not blank, chat returns it with the FAQ label as only
\* source and success = true, and invokes no capability.
C7_FirstDirectMatchAnswers ==
    (chat.pc = "done" /\ MessageIsStoredQuestion)
    => \E k \in 1..Len(qa_database.faq) :
          LET Direct(i) == \/ qa_database.faq[i][1] = chat.message
                           \/ qa_database.faq[i][1] = StripPunct(chat.message)
          IN  /\ Direct(k)
              /\ \A j \in 1..(k - 1) : ~Direct(j)
              /\ NonBlank(qa_database.faq[k][2])
                   => /\ chat.response = [response |-> qa_database.faq[k][2],
                                          sources |-> <<FAQ_SOURCE>>,
                                          success |-> TRUE]
                      /\ chat.invoked = <<"faq">>
                      /\ chat.raised = "none"

\* The message is a stored question that is not the first entry and has
\* another answer than the entries before it; it got its own answer while
\* neither the embedding nor the generative capability was available.
C7_Witness ==
    /\ chat.pc = "done"
    /\ ~ollama_client
    /\ ~encodeUp
    /\ Len(qa_database.faq) = 2
    /\ qa_database.faq[2][1] = chat.message
    /\ qa_database.faq[1][2] # qa_database.faq[2][2]
    /\ chat.response = [response |-> qa_database.faq[2][2],
                        sources |-> <<FAQ_SOURCE>>, success |-> TRUE]

\* Neither the FAQ lookup nor the preset lookup yields an answer for the
\* message.
NoDeterministicAnswer ==
    /\ qa_database.loaded => qa_database.wellformed
    /\ ~NonBlank(SearchQaDatabase(qa_database, chat.message))
    /\ ~NonBlank(FindPresetAnswer(qa_database, chat.message))

\* C8: when the generative capability fails (its client is not initialised,
\* or generate raises) and neither the FAQ table nor the preset table
\* answers the message, chat returns success = false with the contact
\* message and raises nothing.
C8_GenerationFailureDegrades ==
    (/\ chat.pc = "done"
     /\ NoDeterministicAnswer
     /\ ~ollama_client \/ chat.gen = "raised")
    => /\ chat.raised = "none"
       /\ chat.response = [response |-> CONTACT_MESSAGE,
                           sources |-> <<SYSTEM_SOURCE>>,
                           success |-> FALSE]

\* generate raised for a message with retrieved evidence and no FAQ or
\* preset answer, and chat returned.
C8_Witness ==
    /\ chat.pc = "done"
    /\ NoDeterministicAnswer
    /\ chat.gen = "raised"
    /\ chat.relevant_docs # <<>>
    /\ ~chat.response.success

\* C9: whatever fails in the stages, chat ends by returning an answer text,
\* a list of sources and a success flag; it raises nothing.
C9_AlwaysStructuredResult ==
    chat.pc = "done"
    => /\ chat.raised = "none"
       /\ chat.response # NoResponse
       /\ chat.response.success \in BOOLEAN
       /\ chat.response.sources \in Seq({FAQ_SOURCE, PRESET_SOURCE, AI_SOURCE,
                                         SYSTEM_SOURCE, UNKNOWN_SOURCE,
                                         "s1", "s2"})

\* The FAQ lookup raised (qa_database without its FAQ key) and chat returned
\* the apology.
C9_Witness ==
    /\ chat.pc = "done"
    /\ chat.exc = "KeyError"
    /\ chat.response = [response |-> APOLOGY_MESSAGE, sources |-> <<>>,
                        success |-> FALSE]

\* C6: the ranked list chat builds holds every retrieved document once, in
\* descending order of total_score, and documents of equal total_score are
\* in the order the retrieval returned them.
C6_RankedDescendingStable ==
    chat.relevant_docs # <<>>
    => /\ Len(chat.scored_docs) = Len(chat.relevant_docs)
       /\ \A i \in 1..Len(chat.scored_docs) :
             LET x == chat.scored_docs[i] IN
             /\ x.pos \in 1..Len(chat.relevant_docs)
             /\ x.doc = chat.relevant_docs[x.pos]
             /\ x.total_score = TotalScore(x.doc, chat.message)
       /\ \A i, j \in 1..Len(chat.scored_docs) :
             i < j => LET x == chat.scored_docs[i]
                          y == chat.scored_docs[j] IN
                      /\ x.total_score >= y.total_score
                      /\ x.total_score = y.total_score => x.pos < y.pos

\* Two different documents of equal total_score were ranked and kept the
\* order of the retrieval result.
C6_Witness ==
    /\ Len(chat.scored_docs) = 2
    /\ chat.scored_docs[1].total_score = chat.scored_docs[2].total_score
    /\ chat.scored_docs[1].doc # chat.scored_docs[2].doc
    /\ chat.scored_docs[1].pos = 1

\* The ranking moved the second retrieved document in front of the first.
RankingReorders ==
    /\ Len(chat.scored_docs) = 2
    /\ chat.scored_docs[1].pos = 2
    /\ chat.scored_docs[1].total_score > chat.scored_docs[2].total_score

\* The generative capability has been invoked for the request.
GenerationInvoked ==
    \/ chat.pc = "generating"
    \/ \E i \in 1..Len(chat.invoked) : chat.invoked[i] = "generate"

\* Index of the FAQ entry that matches the message at one of the three
\* levels, 0 when none does.
FaqEntry ==
    IF qa_database.loaded
    THEN FaqIndex(qa_database.faq, qa_database.syn, chat.message)
    ELSE 0

\* The message is a key of the preset table or holds a word of one.
PresetMatches ==
    \E i \in 1..Len(PRESET_QA) :
        \/ PRESET_QA[i][1] = Strip(chat.message)
        \/ AnyIn(Split(StripPunct(PRESET_QA[i][1])),
                 StripPunct(Strip(chat.message)))

\* C11 as stated: whenever the generative capability is invoked, neither
\* the FAQ table nor the preset table matches the message.
C11_GenerationOnlyWithoutMatch ==
    GenerationInvoked => FaqEntry = 0 /\ ~PresetMatches

\* C11 amended: whenever the generative capability is invoked, the FAQ table
\* does not match the message or the answer of the matching entry is blank;
\* and evidence was retrieved, or the matching FAQ answer is blank but not
\* empty, or the preset table does not match the message.
C11_GenerationOnlyWithoutAnswer ==
    GenerationInvoked
    => /\ FaqEntry = 0 \/ ~NonBlank(qa_database.faq[FaqEntry][2])
       /\ \/ chat.relevant_docs # <<>>
          \/ FaqEntry # 0 /\ qa_database.faq[FaqEntry][2] # <<>>
          \/ ~PresetMatches

\* The generative capability is invoked for a message the preset table
\* matches, because evidence was retrieved.
C11_Witness ==
    /\ chat.pc = "generating"
    /\ PresetMatches
    /\ FaqEntry = 0
    /\ chat.relevant_docs # <<>>

\* The retrieval of the request has answered, with a VectorDatabaseError.
RetrievalFailed ==
    searchOut.n > 0 /\ searchOut.raised /\ chat.pc \in {"generating", "done"}

\* C12: when the retrieval raises its capability error, chat goes on with no
\* evidence: it consults the preset table and returns the preset answer if
\* there is one, and otherwise goes to the generative stage; the error does
\* not reach the caller or the response.
C12_RetrievalFailureContinues ==
    RetrievalFailed
    => /\ chat.relevant_docs = <<>>
       /\ chat.invoked \in {<<"faq", "search", "preset">>,
                            <<"faq", "search", "preset", "generate">>}
       /\ chat.exc # "VectorDatabaseError"
       /\ chat.raised = "none"
       /\ chat.response.response # KB_MESSAGE
       /\ LET preset_answer == FindPresetAnswer(qa_database, chat.message) IN
          IF NonBlank(preset_answer)
          THEN /\ chat.pc = "done"
               /\ chat.response = [response |-> preset_answer,
                                   sources |-> <<PRESET_SOURCE>>,
                                   success |-> TRUE]
               /\ ~GenerationInvoked
          ELSE IF ollama_client
          THEN GenerationInvoked
          ELSE chat.pc = "done" /\ chat.gen = "uninitialised"

\* The retrieval failed, the preset table had no answer, and the generative
\* stage answered with the disclaimer of an answer without evidence.
C12_Witness ==
    /\ RetrievalFailed
    /\ chat.pc = "done"
    /\ chat.gen = "returned"
    /\ chat.response.success
    /\ chat.response.sources = <<AI_SOURCE>>

\* The sequence has no element twice.
NoDuplicates(seq) ==
    \A i, j \in 1..Len(seq) : seq[i] = seq[j] => i = j

\* The source names of the ranked documents, in ranking order.
RankedNames ==
    [i \in 1..Len(chat.scored_docs) |-> SourceName(chat.scored_docs[i].doc)]

\* Position of the first occurrence of name in RankedNames.
FirstUse(name) ==
    CHOOSE i \in 1..Len(RankedNames) :
        RankedNames[i] = name /\ \A j \in 1..(i - 1) : RankedNames[j] # name

\* src lists every name of RankedNames once, in the order of first use.
DistinctInFirstUseOrder(src) ==
    /\ NoDuplicates(src)
    /\ {src[i] : i \in 1..Len(src)} = {RankedNames[i] : i \in 1..Len(RankedNames)}
    /\ \A a, b \in 1..Len(src) : a < b => FirstUse(src[a]) < FirstUse(src[b])

\* C14: an answer of the generative stage without evidence ends with the
\* disclaimer and has the AI label as its only source; with evidence it is
\* the generated text and its sources are the distinct source names of the
\* ranked documents in the order of first use, followed by the AI label.  No
\* response lists a source twice.
C14_SourcesOfGeneratedAnswer ==
    chat.pc = "done"
    => /\ NoDuplicates(chat.response.sources)
       /\ chat.gen = "returned"
          => \E gen \in GenerateOutcomes :
                /\ ~gen.raises
                /\ chat.response.success
                /\ IF chat.relevant_docs = <<>>
                   THEN /\ chat.response.response = Strip(gen.text) \o DISCLAIMER
                        /\ chat.response.sources = <<AI_SOURCE>>
                   ELSE /\ chat.response.response = Strip(gen.text)
                        /\ Len(chat.response.sources) > 1
                        /\ chat.response.sources[Len(chat.response.sources)] = AI_SOURCE
                        /\ DistinctInFirstUseOrder(
                              SubSeq(chat.response.sources, 1,
                                     Len(chat.response.sources) - 1))

\* Two ranked documents of the same source gave one source label, followed
\* by the AI label.
C14_Witness ==
    /\ chat.pc = "done"
    /\ chat.gen = "returned"
    /\ Len(chat.scored_docs) = 2
    /\ RankedNames[1] = RankedNames[2]
    /\ chat.response.sources = <<RankedNames[1], AI_SOURCE>>

\* Two ranked documents of different sources, the second retrieved ranked
\* first: the sources follow the ranking.
SourcesFollowRanking ==
    /\ chat.pc = "done"
    /\ chat.gen = "returned"
    /\ Len(chat.scored_docs) = 2
    /\ chat.scored_docs[1].pos = 2
    /\ chat.response.sources = <<RankedNames[1], RankedNames[2], AI_SOURCE>>

\* The smallest element of a set of numbers that is not empty.
Least(S) == CHOOSE i \in S : \A j \in S : i <= j

\* The answer of the preset table for the message: that of the key equal to
\* the message, else that of the first key a word of which the message holds.
PresetTableAnswer ==
    LET q     == Strip(chat.message)
        exact == {i \in 1..Len(PRESET_QA) : PRESET_QA[i][1] = q}
        kw    == {i \in 1..Len(PRESET_QA) :
                     AnyIn(Split(StripPunct(PRESET_QA[i][1])), StripPunct(q))}
    IN  IF exact # {} THEN PRESET_QA[Least(exact)][2]
        ELSE PRESET_QA[Least(kw)][2]

\* The retrieval stage of the request is over.
PastRetrieval ==
    /\ chat.pc \in {"generating", "done"}
    /\ \E i \in 1..Len(chat.invoked) : chat.invoked[i] = "search"

PresetSkippedWithEvidence ==
    /\ PastRetrieval
    /\ PresetMatches
    /\ chat.relevant_docs # <<>>
    /\ chat.invoked = <<"faq", "search">>

\* The order of the stages.
STAGES == <<"faq", "search", "preset", "generate">>

StageIndex(stage) == CHOOSE k \in 1..Len(STAGES) : STAGES[k] = stage

WasInvoked(stage) == \E i \in 1..Len(chat.invoked) : chat.invoked[i] = stage

\* The FAQ lookup has an answer for the message of the request.
FaqYieldsAnswer ==
    /\ ~(qa_database.loaded /\ ~qa_database.wellformed)
    /\ NonBlank(SearchQaDatabase(qa_database, chat.message))

\* The preset fallback has an answer for the message of the request.
PresetYieldsAnswer == NonBlank(FindPresetAnswer(qa_database, chat.message))

\* C24: the stages of a chat request are invoked in the order FAQ lookup,
\* semantic retrieval, preset fallback, generative completion, each at most
\* once; a stage is invoked only after the stages before it yielded no
\* answer, and after a stage yielded an answer no later stage is invoked.
C24_StagesInOrder ==
    /\ \A i, j \in 1..Len(chat.invoked) :
          i < j => StageIndex(chat.invoked[i]) < StageIndex(chat.invoked[j])
    /\ chat.invoked # <<>> => chat.invoked[1] = "faq"
    /\ WasInvoked("preset") \/ WasInvoked("generate") => WasInvoked("search")
    /\ WasInvoked("search") => ~FaqYieldsAnswer
    /\ WasInvoked("preset") => chat.relevant_docs = <<>>
    /\ WasInvoked("generate") => (WasInvoked("preset") => ~PresetYieldsAnswer)
    /\ (WasInvoked("faq") /\ FaqYieldsAnswer)
          => /\ chat.invoked = <<"faq">>
             /\ chat.pc = "done"
    /\ (WasInvoked("preset") /\ PresetYieldsAnswer)
          => /\ chat.invoked = <<"faq", "search", "preset">>
             /\ chat.pc = "done"

\* A request went through the four stages: no FAQ answer, nothing
\* retrieved, no preset answer, and the generative completion answered.
C24_Witness ==
    /\ chat.pc = "done"
    /\ chat.invoked = STAGES
    /\ chat.gen = "returned"
    /\ qa_database.loaded
    /\ qa_database.faq # <<>>

\* A request with retrieved evidence went from the retrieval to the
\* generative completion: the preset fallback was not invoked.
PresetStageSkipped ==
    /\ chat.pc = "done"
    /\ chat.invoked = <<"faq", "search", "generate">>

\* C27: every chat request returns in the end, whether or not its
\* offloaded calls (the vector search, the generative completion) return: a
\* call that does not complete within the deadline counts as failed and the
\* request goes on.
C27_EveryRequestReturns == <>(chat.pc = "done")

----------------------------------------------------------------------------
(***************************************************************************)
(* Properties of the ranking                                                *)
(***************************************************************************)

\* The key phrases that occur in the text.
PhrasesIn(text) ==
    {k \in 1..Len(KEY_PHRASES) : Contains(KEY_PHRASES[k], text)}

\* C15 as stated: the keyword score of a document is 10 times the number of
\* key phrases that occur in its text, and total_score is the similarity
\* plus 0.05 times that score (50 thousandths a point).
C15_ScoreCountsDocumentPhrases ==
    \A i \in 1..Len(rankOut.scored_docs) :
        LET x == rankOut.scored_docs[i] IN
        x.total_score
          = x.doc.similarity + 50 * 10 * Cardinality(PhrasesIn(x.doc.document))

\* C15 amended: the keyword score of a document is 10 times the number of
\* key phrases that occur both in the question and in the document text, and
\* total_score is the similarity plus 0.05 times that score.
C15_ScoreCountsSharedPhrases ==
    \A i \in 1..Len(rankOut.scored_docs) :
        LET x == rankOut.scored_docs[i] IN
        x.total_score
          = x.doc.similarity
            + 50 * 10 * Cardinality(PhrasesIn(x.doc.document)
                                    \cap PhrasesIn(rankReq.message))

\* A ranked document holds two key phrases of which the question holds one:
\* its score counts one phrase.
C15_Witness ==
    /\ rankOut.n = 1
    /\ Cardinality(PhrasesIn(rankReq.message)) = 1
    /\ \E i \in 1..Len(rankOut.scored_docs) :
          LET x == rankOut.scored_docs[i] IN
          /\ Cardinality(PhrasesIn(x.doc.document)) = 2
          /\ x.total_score = x.doc.similarity + 500

\* C32: the ranked list is a permutation of the retrieval result: it has
\* the same length, every position of the retrieval result occurs in it once,
\* and the document at each place has the text, the metadata, the distance
\* and the similarity of the retrieved document it stands for.
C32_RankingPreservesEvidence ==
    rankOut.n = 1
    => LET docs == rankReq.relevant_docs
           ranked == rankOut.scored_docs IN
       /\ Len(ranked) = Len(docs)
       /\ \A p \in 1..Len(docs) :
             Cardinality({i \in 1..Len(ranked) : ranked[i].pos = p}) = 1
       /\ \A i \in 1..Len(ranked) :
             /\ ranked[i].pos \in 1..Len(docs)
             /\ ranked[i].doc.document = docs[ranked[i].pos].document
             /\ ranked[i].doc.source = docs[ranked[i].pos].source
             /\ ranked[i].doc.distance = docs[ranked[i].pos].distance
             /\ ranked[i].doc.similarity = docs[ranked[i].pos].similarity

\* Three retrieved documents were ranked in another order than retrieved,
\* the keyword score having raised the total score of one above its
\* similarity.
C32_Witness ==
    /\ rankOut.n = 1
    /\ Len(rankOut.scored_docs) = MaxRankDocs
    /\ rankOut.scored_docs[1].pos # 1
    /\ rankOut.scored_docs[1].total_score > rankOut.scored_docs[1].doc.similarity

----------------------------------------------------------------------------
(***************************************************************************)
(* Properties of get_nearby_locations                                       *)
(***************************************************************************)

\* The positions of the hospital records of a category that have both
\* coordinates.
WithCoordinates(category) ==
    {i \in 1..Len(map_data.hospitals) :
        /\ map_data.hospitals[i].lat.kind # "none"
        /\ map_data.hospitals[i].lng.kind # "none"
        /\ Category(map_data.hospitals[i].level) = category}

\* The positions of the records of a category in the returned list.
Returned(category) ==
    {geoOut.locations[j].pos : j \in {k \in 1..Len(geoOut.locations) :
                                        geoOut.locations[k].category = category}}

\* The distance of the i-th hospital record from the request, in metres.
DistanceOf(i) ==
    CalculateDistance(geoReq.latitude, geoReq.longitude,
                      map_data.hospitals[i].lat.v, map_data.hospitals[i].lng.v)

Min(a, b) == IF a < b THEN a ELSE b

HospitalSearchAnswered ==
    geoOut.n = 1 /\ geoReq.type = "hospital" /\ geoOut.success

\* C10: a hospital search returns, for each of the four categories, exactly
\* min(3, n) of the n records of the category that have coordinates, and no
\* record it leaves out is nearer than one it returns.
C10_NearestPerTier ==
    HospitalSearchAnswered
    => \A k \in 1..Len(CATEGORIES) :
          LET all == WithCoordinates(CATEGORIES[k])
              ret == Returned(CATEGORIES[k]) IN
          /\ ret \subseteq all
          /\ Cardinality(ret) = Min(PER_CATEGORY, Cardinality(all))
          /\ \A i \in ret, j \in all \ ret : DistanceOf(i) <= DistanceOf(j)

\* What holds of the code: the same with the distance rounded to 0.01 km,
\* and among records of equal rounded distance the earlier records win.
NearestPerTierRounded ==
    HospitalSearchAnswered
    => \A k \in 1..Len(CATEGORIES) :
          LET all == WithCoordinates(CATEGORIES[k])
              ret == Returned(CATEGORIES[k]) IN
          /\ ret \subseteq all
          /\ Cardinality(ret) = Min(PER_CATEGORY, Cardinality(all))
          /\ \A i \in ret, j \in all \ ret :
                \/ Round2(DistanceOf(i)) < Round2(DistanceOf(j))
                \/ Round2(DistanceOf(i)) = Round2(DistanceOf(j)) /\ i < j

\* An office search was answered with a list.
OfficeSearchAnswered ==
    geoOut.n = 1 /\ geoReq.type = "labor_office" /\ geoOut.success

\* The distance the office branch computes for the i-th office record.
OfficeDistanceOf(i) ==
    FlatDistance(geoReq.latitude - map_data.labor_offices[i].lat.v,
                 geoReq.longitude - map_data.labor_offices[i].lng.v)

\* C20: an office search returns min(OFFICE_LIMIT, n) of the n office
\* records, each once and with its distance, in ascending order of distance;
\* no record left out is nearer than a returned one; the records are not
\* put in tiers.
C20_OfficesNearestFirst ==
    OfficeSearchAnswered
    => LET n   == Len(map_data.labor_offices)
           loc == geoOut.locations
           ret == {loc[j].pos : j \in 1..Len(loc)}
       IN  /\ Len(loc) = Min(OFFICE_LIMIT, n)
           /\ geoOut.total = n
           /\ ret \subseteq 1..n
           /\ Cardinality(ret) = Len(loc)
           /\ \A j \in 1..Len(loc) :
                 /\ loc[j].type = "labor_office"
                 /\ loc[j].category = "none"
                 /\ loc[j].distance = OfficeDistanceOf(loc[j].pos)
           /\ \A i, j \in 1..Len(loc) : i < j => loc[i].distance <= loc[j].distance
           /\ \A i \in ret, j \in (1..n) \ ret :
                 OfficeDistanceOf(i) <= OfficeDistanceOf(j)

\* More office records than the limit, the nearest of them last in the
\* data: it is first in the result and the farthest is left out.
C20_Witness ==
    /\ OfficeSearchAnswered
    /\ Len(map_data.labor_offices) > OFFICE_LIMIT
    /\ Len(geoOut.locations) = OFFICE_LIMIT
    /\ geoOut.locations[1].pos = Len(map_data.labor_offices)
    /\ \E j \in 1..Len(map_data.labor_offices) :
          OfficeDistanceOf(j) > geoOut.locations[OFFICE_LIMIT].distance

\* The records the request reads.
RecordsRead ==
    IF geoReq.type = "hospital" THEN map_data.hospitals ELSE map_data.labor_offices

IsString(c) == c.kind \in {"numstr", "badstr"}

\* The positions of the records with a string coordinate that the loop does
\* not skip: every such office record, and the hospital records that have
\* both coordinates.
StringRecords ==
    {i \in 1..Len(RecordsRead) :
        /\ IsString(RecordsRead[i].lat) \/ IsString(RecordsRead[i].lng)
        /\ geoReq.type = "hospital"
             => RecordsRead[i].lat.kind # "none" /\ RecordsRead[i].lng.kind # "none"}

\* The lookup failed as a whole: an error response or an HTTP error, and no
\* list.
LookupFailed ==
    /\ ~geoOut.success
    /\ geoOut.locations = <<>>
    /\ geoOut.total = 0
    /\ geoOut.raised = "HTTPException" \/ geoOut.error # "none"

\* Record i was processed as a record with the numbers its strings stand
\* for: it is in the list with these coordinates and its distance, or it is
\* left out by the limit, no nearer than the records returned.
ProcessedNormally(i) ==
    \/ \E j \in 1..Len(geoOut.locations) :
          /\ geoOut.locations[j].pos = i
          /\ geoOut.locations[j].latitude = RecordsRead[i].lat.v
          /\ geoOut.locations[j].longitude = RecordsRead[i].lng.v
          /\ geoOut.locations[j].distance = OfficeDistanceOf(i)
    \/ /\ Len(geoOut.locations) = OFFICE_LIMIT
       /\ \A j \in 1..Len(geoOut.locations) :
             geoOut.locations[j].distance <= OfficeDistanceOf(i)

\* C21: when a record read by the lookup has a string coordinate, either the
\* lookup is answered, every such record having been coerced and processed
\* like a record with numbers, or the lookup fails as a whole; it fails when
\* a string cannot be coerced.
C21_StringCoordinates ==
    (geoOut.n = 1 /\ map_data.loaded /\ StringRecords # {})
    => /\ \/ LookupFailed
          \/ /\ geoOut.success
             /\ geoReq.type = "labor_office"
             /\ \A i \in StringRecords :
                   /\ RecordsRead[i].lat.kind # "badstr"
                   /\ RecordsRead[i].lng.kind # "badstr"
                   /\ ProcessedNormally(i)
       /\ (\E i \in StringRecords : RecordsRead[i].lat.kind = "badstr")
             => LookupFailed

\* An office search over records one of which has a numeric string as
\* latitude was answered with that record in the list.
C21_Witness ==
    /\ OfficeSearchAnswered
    /\ \E i \in StringRecords :
          \E j \in 1..Len(geoOut.locations) :
             /\ geoOut.locations[j].pos = i
             /\ geoOut.locations[j].latitude = map_data.labor_offices[i].lat.v

\* An office search over records the last of which has a string float()
\* rejects failed with the HTTP error.
OfficeLookupRejected ==
    /\ geoOut.n = 1
    /\ geoReq.type = "labor_office"
    /\ Len(map_data.labor_offices) > 1
    /\ map_data.labor_offices[Len(map_data.labor_offices)].lat.kind = "badstr"
    /\ geoOut.raised = "HTTPException"

\* A hospital search over records the last of which has a string latitude
\* failed with the error response.
HospitalLookupFailed ==
    /\ geoOut.n = 1
    /\ geoReq.type = "hospital"
    /\ Len(map_data.hospitals) > 1
    /\ Len(map_data.hospitals) \in StringRecords
    /\ geoOut.error = "lookup failed"

\* The positions of the records read that lack a latitude or a longitude.
MissingRecords ==
    {i \in 1..Len(RecordsRead) :
        RecordsRead[i].lat.kind = "none" \/ RecordsRead[i].lng.kind = "none"}

\* Every record read that has both coordinates has coordinates the branch
\* accepts: numbers, and for an office also numeric strings.
OthersWellFormed ==
    \A i \in (1..Len(RecordsRead)) \ MissingRecords :
        /\ RecordsRead[i].lat.kind \in
              (IF geoReq.type = "hospital" THEN {"num"} ELSE {"num", "numstr"})
        /\ RecordsRead[i].lng.kind \in
              (IF geoReq.type = "hospital" THEN {"num"} ELSE {"num", "numstr"})

\* C22: a record without a latitude or a longitude never appears in the
\* result and does not make the lookup fail: a lookup over records that are
\* otherwise well formed is answered.
C22_MissingCoordinateSkipped ==
    (geoOut.n = 1 /\ map_data.loaded /\ MissingRecords # {} /\ OthersWellFormed)
    => /\ geoOut.success
       /\ geoOut.raised = "none"
       /\ \A j \in 1..Len(geoOut.locations) :
             geoOut.locations[j].pos \notin MissingRecords

\* The facility branch does skip such a record.
HospitalMissingCoordinateSkipped ==
    geoReq.type = "hospital" => C22_MissingCoordinateSkipped

\* A facility search over a record without a coordinate and records with
\* coordinates was answered with the latter.
HospitalMissingSkippedReached ==
    /\ geoOut.n = 1
    /\ geoReq.type = "hospital"
    /\ MissingRecords # {}
    /\ geoOut.success
    /\ geoOut.locations # <<>>

\* The position of a category in the tier order.
TierIndex(category) == CHOOSE k \in 1..Len(CATEGORIES) : CATEGORIES[k] = category

\* C29: the list a facility search returns is the concatenation of the
\* per-tier lists in tier order: the entries of an earlier tier precede
\* those of a later tier, the entries of one tier are in ascending order of
\* distance, and a tier has at most 3 entries.
C29_TierOrderConcatenation ==
    HospitalSearchAnswered
    => /\ \A j, k \in 1..Len(geoOut.locations) :
             j < k =>
               /\ TierIndex(geoOut.locations[j].category)
                     <= TierIndex(geoOut.locations[k].category)
               /\ geoOut.locations[j].category = geoOut.locations[k].category
                     => geoOut.locations[j].distance <= geoOut.locations[k].distance
       /\ \A c \in 1..Len(CATEGORIES) :
             Cardinality(Returned(CATEGORIES[c])) <= PER_CATEGORY

\* What holds of the code: the whole list is in ascending order of distance,
\* whatever the tiers, entries of equal distance being in tier order, and a
\* tier has at most 3 entries.
SortedAcrossTiers ==
    HospitalSearchAnswered
    => /\ \A j, k \in 1..Len(geoOut.locations) :
             j < k =>
               \/ geoOut.locations[j].distance < geoOut.locations[k].distance
               \/ /\ geoOut.locations[j].distance = geoOut.locations[k].distance
                  /\ TierIndex(geoOut.locations[j].category)
                        <= TierIndex(geoOut.locations[k].category)
       /\ \A c \in 1..Len(CATEGORIES) :
             Cardinality(Returned(CATEGORIES[c])) <= PER_CATEGORY

\* The tier of a rating text, keyword by keyword.
HasKeyword(level_text, keyword) ==
    \E i \in 1..Len(level_text) : level_text[i] = keyword

FirstTier(level_text) ==
    IF HasKeyword(level_text, "M") THEN "medical_center"
    ELSE IF HasKeyword(level_text, "R") THEN "regional"
    ELSE IF HasKeyword(level_text, "D") THEN "district"
    ELSE "clinic"

\* C30: every facility of the result is in one bucket only, the one of the
\* first keyword, in the order medical centre, regional hospital, district
\* hospital, that its rating text contains, and the clinics' when it
\* contains none.
C30_FirstKeywordTier ==
    HospitalSearchAnswered
    => /\ \A j \in 1..Len(geoOut.locations) :
             /\ geoOut.locations[j].level
                   = map_data.hospitals[geoOut.locations[j].pos].level
             /\ geoOut.locations[j].category
                   = FirstTier(geoOut.locations[j].level)
       /\ \A j, k \in 1..Len(geoOut.locations) :
             geoOut.locations[j].pos = geoOut.locations[k].pos => j = k

\* A facility whose rating text has the keyword of the district hospitals
\* before the keyword of the medical centres was returned as a medical
\* centre, next to a facility without any keyword.
C30_Witness ==
    /\ HospitalSearchAnswered
    /\ \E j, k \in 1..Len(geoOut.locations) :
          /\ geoOut.locations[j].level = <<"D", "M">>
          /\ geoOut.locations[j].category = "medical_center"
          /\ geoOut.locations[k].level = E_LEVEL
          /\ geoOut.locations[k].category = "clinic"

----------------------------------------------------------------------------
(***************************************************************************)
(* Properties of the worker pool                                            *)
(***************************************************************************)

Tasks == 1..executor.submitted

\* C28: every submitted task is in the queue, running or complete, never
\* dropped; and shutdown_event has returned only when no submitted task is
\* in the queue or running: all of them ran to completion.
C28_ShutdownDrainsPool ==
    /\ \A task \in Tasks :
          \/ task \in executor.completed
          \/ task \in executor.running
          \/ \E i \in 1..Len(executor.queue) : executor.queue[i] = task
    /\ executor.state = "closed"
          => /\ executor.queue = <<>>
             /\ executor.running = {}
             /\ executor.completed = Tasks

\* shutdown_event was called with more tasks outstanding than there are
\* workers, some running and some still in the queue, and has returned.
C28_Witness ==
    /\ executor.state = "closed"
    /\ executor.outstanding > THREAD_POOL_MAX_WORKERS
    /\ executor.completed = Tasks

----------------------------------------------------------------------------
(***************************************************************************)
(* Properties of search_qa_database                                         *)
(***************************************************************************)

\* The call returned, on a loaded FAQ table.
FaqAnswered ==
    /\ faqOut.n = 1
    /\ faqOut.raised = "none"
    /\ faqReq.db.loaded

FaqTable == faqReq.db.faq
KeywordTable == faqReq.db.syn
CleanQuestion == SelectSeq(faqReq.question, LAMBDA ch : ch # "?")

\* Entry i matches at the exact level.
ExactAt(i) ==
    FaqTable[i][1] = faqReq.question \/ FaqTable[i][1] = CleanQuestion

\* Entry i matches at the keyword level: a word of its question, cleaned,
\* occurs in the cleaned query.
WordAt(i) ==
    LET words == Split(SelectSeq(FaqTable[i][1], LAMBDA ch : ch # "?")) IN
    \E w \in 1..Len(words) : Contains(words[w], CleanQuestion)

\* Keyword k of the keyword table has a synonym in the cleaned query.
KeywordAsked(k) ==
    \E n \in 1..Len(KeywordTable[k][2]) :
       Contains(KeywordTable[k][2][n], CleanQuestion)

\* Entry i matches keyword k: its question contains the keyword or one of
\* its synonyms.
KeywordAt(k, i) ==
    \/ Contains(KeywordTable[k][1], FaqTable[i][1])
    \/ \E n \in 1..Len(KeywordTable[k][2]) :
          Contains(KeywordTable[k][2][n], FaqTable[i][1])

\* Entry i matches at the synonym level.
SynonymAt(i) ==
    \E k \in 1..Len(KeywordTable) : KeywordAsked(k) /\ KeywordAt(k, i)

ExactEntries == {i \in 1..Len(FaqTable) : ExactAt(i)}
WordEntries == {i \in 1..Len(FaqTable) : WordAt(i)}
SynonymEntries == {i \in 1..Len(FaqTable) : SynonymAt(i)}

\* The keywords asked for that some entry matches, and the entries of the
\* first of them in the order of the keyword table.
KeywordsWithEntry ==
    {k \in 1..Len(KeywordTable) :
        KeywordAsked(k) /\ \E i \in 1..Len(FaqTable) : KeywordAt(k, i)}

EntriesOfFirstKeyword ==
    {i \in 1..Len(FaqTable) : KeywordAt(Least(KeywordsWithEntry), i)}

\* C31 as stated: the exact level wins over the keyword level, the keyword
\* level over the synonym level, within a level the first entry of the FAQ
\* table that matches at the level is returned, and "" is returned only when
\* no level matches.
C31_FirstEntryOfFirstLevel ==
    FaqAnswered
    => faqOut.answer =
          IF ExactEntries # {} THEN FaqTable[Least(ExactEntries)][2]
          ELSE IF WordEntries # {} THEN FaqTable[Least(WordEntries)][2]
          ELSE IF SynonymEntries # {} THEN FaqTable[Least(SynonymEntries)][2]
          ELSE <<>>

\* C31 amended: the same, except that the synonym level goes by the keyword
\* table first: the answer is the one of the first entry of the FAQ table
\* that matches the first keyword, in the order of the keyword table, that
\* has a synonym in the query and an entry matching it.
C31_FirstEntryOfFirstKeyword ==
    FaqAnswered
    => faqOut.answer =
          IF ExactEntries # {} THEN FaqTable[Least(ExactEntries)][2]
          ELSE IF WordEntries # {} THEN FaqTable[Least(WordEntries)][2]
          ELSE IF KeywordsWithEntry # {}
               THEN FaqTable[Least(EntriesOfFirstKeyword)][2]
          ELSE <<>>

\* The three levels were decisive in some call: a later entry matching
\* exactly was preferred to an earlier entry matching by a word.
C31_Witness ==
    /\ FaqAnswered
    /\ ExactEntries # {}
    /\ WordEntries # {}
    /\ Least(WordEntries) < Least(ExactEntries)
    /\ faqOut.answer = FaqTable[Least(ExactEntries)][2]
    /\ faqOut.answer # FaqTable[Least(WordEntries)][2]

\* The synonym level returned the entry of the first keyword although an
\* earlier entry matches another keyword asked for.
SynonymLevelByKeywordOrder ==
    /\ FaqAnswered
    /\ ExactEntries = {} /\ WordEntries = {}
    /\ KeywordsWithEntry # {}
    /\ Least(SynonymEntries) < Least(EntriesOfFirstKeyword)
    /\ faqOut.answer = FaqTable[Least(EntriesOfFirstKeyword)][2]
    /\ faqOut.answer # FaqTable[Least(SynonymEntries)][2]

\* The keyword level answered.
WordLevelAnswered ==
    /\ FaqAnswered
    /\ ExactEntries = {} /\ WordEntries # {}
    /\ faqOut.answer = FaqTable[Least(WordEntries)][2]

====
